---- MODULE Spec2Model ----
(***************************************************************************)
(* Model of the JSVMP detector's batch pipeline (src/src/jsvmpDetector.ts  *)
(* and src/src/tokenizer.ts): line formatting, token-bounded batching,     *)
(* per-batch model calls with error collection, and result merging.       *)
(*                                                                         *)
(* Strings are sequences of string fragments (usually single characters),  *)
(* so that formatting and parsing are computed rather than assumed.        *)
(***************************************************************************)
EXTENDS Integers, Sequences, FiniteSets, TLC

(***************************************************************************)
(* Bounds of the model.                                                    *)
(***************************************************************************)
\* largest number of lines of a small file
MaxLines == 3
\* largest token cost of one line (with its terminator)
MaxCost == 3
\* largest small token budget per batch
MaxTokens == 2
\* largest number of regions in the results given to one merge
MaxRegions == 3

\* results given to one merge of summaries and bytecode descriptors
MaxResults == 3

\* regions in one response given to the parser
MaxResponseRegions == 2

(***************************************************************************)
(* Program constants.                                                      *)
(***************************************************************************)
\* String(lineNumber).padStart(5, ' ') / formattedLine.substring(0, 5)
LineNoWidth == 5
\* sourcePos.padEnd(10, ' ')
SrcPosWidth == 10
\* options?.maxTokensPerBatch ?? 8000
DefaultMaxTokensPerBatch == 8000
\* parseInt of a string without a leading digit
NaN == -1

Min(a, b) == IF a <= b THEN a ELSE b

Digits == <<"0", "1", "2", "3", "4", "5", "6", "7", "8", "9">>

IsDigit(c) == \E d \in 1..10 : Digits[d] = c

DigitVal(c) == (CHOOSE d \in 1..10 : Digits[d] = c) - 1

\* String(n) for a non-negative integer: its decimal digits
RECURSIVE String(_)
String(n) == IF n < 10 THEN <<Digits[n + 1]>>
             ELSE String(n \div 10) \o <<Digits[(n % 10) + 1]>>

Spaces(k) == [j \in 1..k |-> " "]

\* s.padStart(width, ' '): pads on the left, never truncates
padStart(s, width) == IF Len(s) >= width THEN s ELSE Spaces(width - Len(s)) \o s

\* s.padEnd(width, ' ')
padEnd(s, width) == IF Len(s) >= width THEN s ELSE s \o Spaces(width - Len(s))

\* s.substring(0, n)
substring0(s, n) == SubSeq(s, 1, Min(n, Len(s)))

\* s.trim() for strings whose only white space is ' '
RECURSIVE trimStart(_)
trimStart(s) == IF Len(s) > 0 /\ s[1] = " " THEN trimStart(Tail(s)) ELSE s

RECURSIVE trimEnd(_)
trimEnd(s) == IF Len(s) > 0 /\ s[Len(s)] = " " THEN trimEnd(SubSeq(s, 1, Len(s) - 1)) ELSE s

trim(s) == trimEnd(trimStart(s))

\* parseInt(s, 10) for an unsigned string: the value of the leading digits
RECURSIVE parseDigits(_, _)
parseDigits(s, acc) == IF Len(s) > 0 /\ IsDigit(s[1])
                       THEN parseDigits(Tail(s), acc * 10 + DigitVal(s[1]))
                       ELSE acc

parseInt(s) == IF Len(s) > 0 /\ IsDigit(s[1]) THEN parseDigits(s, 0) ELSE NaN

(***************************************************************************)
(* Line Formatter                                                          *)
(***************************************************************************)
\* `${lineNumStr} ${srcPosPadded} ${code}`
formatCodeLine(lineNumber, sourcePos, code) ==
    LET lineNumStr == padStart(String(lineNumber), LineNoWidth)
        srcPosPadded == IF Len(sourcePos) > 0 THEN padEnd(sourcePos, SrcPosWidth)
                        ELSE <<"          ">>
    IN lineNumStr \o <<" ">> \o srcPosPadded \o <<" ">> \o code

\* the lines array of formatEntireFile for a file of totalLines lines and no
\* source map (consumer = null, sourcePos = ''); the code text is immaterial.
\* formattedLines starts empty and receives one line per line number.
formatEntireFile(totalLines) ==
    <<>> \o [lineNum \in 1..totalLines |-> formatCodeLine(lineNum, <<>>, <<"c">>)]

extractLineNumber(formattedLine) ==
    parseInt(trim(substring0(formattedLine, LineNoWidth)))

(***************************************************************************)
(* Tokenizer: splitByTokenLimit                                            *)
(***************************************************************************)
\* enc.encode(line + '\n').length for the line at position pos: the encoder
\* is external; enc is the sequence of costs it yields, repeated cyclically
encLength(enc, pos) == enc[((pos - 1) % Len(enc)) + 1]

\* WouldExceed with a batch that would be exactly full counted as over
WouldExceedOrFill(currentTokenCount, lineTokens, maxTokens) ==
    currentTokenCount + lineTokens >= maxTokens

\* currentTokenCount + lineTokens > maxTokens
WouldExceed(currentTokenCount, lineTokens, maxTokens) ==
    currentTokenCount + lineTokens > maxTokens

\* SplitStep with the pending batch dropped, not flushed, before an
\* oversized line
SplitStepDropsPending(st, line, lineTokens, maxTokens) ==
    IF lineTokens > maxTokens
    THEN [batches |-> Append(st.batches, <<line>>),
          currentBatch |-> <<>>,
          currentTokenCount |-> 0]
    ELSE LET flush == st.currentTokenCount + lineTokens > maxTokens
                      /\ Len(st.currentBatch) > 0
         IN [batches |-> IF flush THEN Append(st.batches, st.currentBatch) ELSE st.batches,
             currentBatch |-> Append(IF flush THEN <<>> ELSE st.currentBatch, line),
             currentTokenCount |-> (IF flush THEN 0 ELSE st.currentTokenCount) + lineTokens]

\* one iteration of the for loop over the lines
SplitStep(st, line, lineTokens, maxTokens) ==
    IF lineTokens > maxTokens
    THEN [batches |-> (IF Len(st.currentBatch) > 0
                       THEN Append(st.batches, st.currentBatch)
                       ELSE st.batches) \o <<(<<line>>)>>,
          currentBatch |-> IF Len(st.currentBatch) > 0 THEN <<>> ELSE st.currentBatch,
          currentTokenCount |-> IF Len(st.currentBatch) > 0 THEN 0 ELSE st.currentTokenCount]
    ELSE LET flush == WouldExceed(st.currentTokenCount, lineTokens, maxTokens)
                      /\ Len(st.currentBatch) > 0
         IN [batches |-> IF flush THEN Append(st.batches, st.currentBatch) ELSE st.batches,
             currentBatch |-> Append(IF flush THEN <<>> ELSE st.currentBatch, line),
             currentTokenCount |-> (IF flush THEN 0 ELSE st.currentTokenCount) + lineTokens]

\* the for loop over lines[lo..hi], left to right; the range is halved so
\* that evaluation depth stays logarithmic in the number of lines
RECURSIVE SplitLoop(_, _, _, _, _, _)
SplitLoop(st, lines, enc, maxTokens, lo, hi) ==
    IF st.currentTokenCount >= 0 /\ lo = hi
    THEN SplitStep(st, lines[lo], encLength(enc, lo), maxTokens)
    ELSE LET mid == (lo + hi) \div 2
         IN SplitLoop(SplitLoop(st, lines, enc, maxTokens, lo, mid),
                      lines, enc, maxTokens, mid + 1, hi)

\* returns [threw, batches]
splitByTokenLimit(lines, maxTokens, enc) ==
    IF Len(lines) = 0 THEN [threw |-> FALSE, batches |-> <<>>]
    ELSE IF maxTokens <= 0 THEN [threw |-> TRUE, batches |-> <<>>]
    ELSE LET st == SplitLoop([batches |-> <<>>, currentBatch |-> <<>>,
                              currentTokenCount |-> 0],
                             lines, enc, maxTokens, 1, Len(lines))
         IN [threw |-> FALSE,
             batches |-> IF Len(st.currentBatch) > 0
                         THEN Append(st.batches, st.currentBatch)
                         ELSE st.batches]

(***************************************************************************)
(* Batch Splitter: createBatches                                           *)
(***************************************************************************)
\* the BatchInfo pushed for one non-empty group of lines.  content is the
\* '\n'-join of the group, of which the model keeps the number of lines;
\* tokenCount (countTokens(content)) is never read and is left out.
BatchInfo(batchLines) ==
    [startLine |-> extractLineNumber(batchLines[1]),
     endLine |-> extractLineNumber(batchLines[Len(batchLines)]),
     lineCount |-> Len(batchLines)]

IsNonEmpty(batchLines) == Len(batchLines) > 0

\* the loop over lineBatches: empty groups are skipped
BatchInfos(groups) ==
    LET kept == SelectSeq(groups, IsNonEmpty)
    IN [k \in 1..Len(kept) |-> BatchInfo(kept[k])]

\* returns [threw, batches]
createBatches(formattedLines, maxTokens, enc) ==
    IF Len(formattedLines) = 0
    THEN [threw |-> FALSE, batches |-> <<>>]
    ELSE LET split == splitByTokenLimit(formattedLines, maxTokens, enc)
         IN IF split.threw
            THEN [threw |-> TRUE, batches |-> <<>>]
            ELSE [threw |-> FALSE, batches |-> BatchInfos(split.batches)]

(***************************************************************************)
(* Result Merger: mergeDetectionResults                                    *)
(***************************************************************************)
\* an absent optional field
Undefined == [type |-> "undefined"]

\* a summary in the legacy string form / in the structured form
StringSummary(text) == [type |-> "string", value |-> text]

ObjectSummary(description, recommendation) ==
    [type |-> "object", overall_description |-> description,
     debugging_recommendation |-> recommendation]

\* confidenceOrder with ultra_high ranked no higher than high
confidenceOrderUltraAsHigh == [ultra_high |-> 3, high |-> 3, medium |-> 2, low |-> 1]

\* confidenceOrder
confidenceOrder == [ultra_high |-> 4, high |-> 3, medium |-> 2, low |-> 1]

\* regions.sort((a, b) => a.start - b.start): stable, so r goes behind
\* every region already placed whose start is not larger
RECURSIVE InsertByStart(_, _)
InsertByStart(sorted, r) ==
    IF Len(sorted) = 0 THEN <<r>>
    ELSE IF sorted[Len(sorted)].start <= r.start THEN Append(sorted, r)
    ELSE Append(InsertByStart(SubSeq(sorted, 1, Len(sorted) - 1), r), sorted[Len(sorted)])

\* SortByStart with the sorted copy thrown away
SortByStartKeepsOrder(regions) == regions

RECURSIVE SortByStart(_)
SortByStart(regions) ==
    IF Len(regions) = 0 THEN <<>>
    ELSE InsertByStart(SortByStart(SubSeq(regions, 1, Len(regions) - 1)),
                       regions[Len(regions)])

\* Overlaps with regions on consecutive lines counted as overlapping
OverlapsOrAdjacent(region, existing) ==
    region.start <= existing.end + 1 /\ region.end + 1 >= existing.start

\* region.start <= existing.end && region.end >= existing.start
Overlaps(region, existing) ==
    region.start <= existing.end /\ region.end >= existing.start

\* OverlappingIndex with a test that is exclusive at both ends
OverlappingIndexExclusive(deduplicatedRegions, region) ==
    LET strictly(k) == /\ region.start < deduplicatedRegions[k].end
                       /\ region.end > deduplicatedRegions[k].start
    IN IF \E k \in 1..Len(deduplicatedRegions) : strictly(k)
       THEN CHOOSE k \in 1..Len(deduplicatedRegions) :
               strictly(k) /\ \A j \in 1..(k - 1) : ~strictly(j)
       ELSE 0

\* the inner loop: index of the first accepted region that overlaps, or 0
\* (the code's -1) when there is none
OverlappingIndex(deduplicatedRegions, region) ==
    IF \E i \in 1..Len(deduplicatedRegions) : Overlaps(region, deduplicatedRegions[i])
    THEN CHOOSE i \in 1..Len(deduplicatedRegions) :
            /\ Overlaps(region, deduplicatedRegions[i])
            /\ \A j \in 1..(i - 1) : ~Overlaps(region, deduplicatedRegions[j])
    ELSE 0

\* DedupStep with a region of higher confidence added to the accepted
\* regions, the overlapping one staying in place
DedupStepKeepsBoth(deduplicatedRegions, region) ==
    LET overlappingIndex == OverlappingIndex(deduplicatedRegions, region)
    IN IF overlappingIndex = 0
       THEN Append(deduplicatedRegions, region)
       ELSE IF confidenceOrder[region.confidence]
                 > confidenceOrder[deduplicatedRegions[overlappingIndex].confidence]
            THEN Append(deduplicatedRegions, region)
            ELSE deduplicatedRegions

\* DedupStep with the accepted region replaced on a tie of confidence too
DedupStepReplacesOnTie(deduplicatedRegions, region) ==
    LET overlappingIndex == OverlappingIndex(deduplicatedRegions, region)
    IN IF overlappingIndex = 0
       THEN Append(deduplicatedRegions, region)
       ELSE IF confidenceOrder[region.confidence]
                 >= confidenceOrder[deduplicatedRegions[overlappingIndex].confidence]
            THEN [deduplicatedRegions EXCEPT ![overlappingIndex] = region]
            ELSE deduplicatedRegions

\* one iteration of the loop over the sorted regions
DedupStep(deduplicatedRegions, region) ==
    LET overlappingIndex == OverlappingIndex(deduplicatedRegions, region)
    IN IF overlappingIndex = 0
       THEN Append(deduplicatedRegions, region)
       ELSE IF confidenceOrder[region.confidence]
                 > confidenceOrder[deduplicatedRegions[overlappingIndex].confidence]
            THEN [deduplicatedRegions EXCEPT ![overlappingIndex] = region]
            ELSE deduplicatedRegions

RECURSIVE Deduplicate(_)
Deduplicate(allRegions) ==
    IF Len(allRegions) = 0 THEN <<>>
    ELSE DedupStep(Deduplicate(SubSeq(allRegions, 1, Len(allRegions) - 1)),
                   allRegions[Len(allRegions)])

\* allRegions.push(...result.regions) for every result
RECURSIVE AllRegions(_)
AllRegions(results) ==
    IF Len(results) = 0 THEN <<>>
    ELSE AllRegions(SubSeq(results, 1, Len(results) - 1)) \o results[Len(results)].regions

\* SummaryPart without the batch tag
SummaryPartUntagged(i, summary) ==
    IF summary.type = "string" THEN summary.value ELSE summary.overall_description

\* `[Batch ${i + 1}] ${summary}` with the description of either form
SummaryPart(i, summary) ==
    <<"[Batch ">> \o String(i) \o <<"] ">>
        \o (IF summary.type = "string" THEN summary.value
            ELSE summary.overall_description)

\* summaryParts.join('\n') over the first n results
RECURSIVE JoinSummaryParts(_, _)
JoinSummaryParts(results, n) ==
    IF n = 0 THEN <<>>
    ELSE IF n = 1 THEN SummaryPart(1, results[1].summary)
    ELSE JoinSummaryParts(results, n - 1) \o <<"\n">> \o SummaryPart(n, results[n].summary)

\* the fixed recommendation used when the last summary is a plain string
\* (a Chinese sentence in the source, named here in ASCII)
FallbackRecommendation == <<"refer to the analysis of each batch">>

\* MergedGlobalBytecode taking the first descriptor present, named or not
MergedGlobalBytecodeFirstPresent(results) ==
    LET present(k) == results[k].global_bytecode # Undefined
    IN IF \E k \in 1..Len(results) : present(k)
       THEN results[CHOOSE k \in 1..Len(results) :
                       present(k) /\ \A j \in 1..(k - 1) : ~present(j)].global_bytecode
       ELSE Undefined

\* the first global_bytecode that is present and has a non-empty name
MergedGlobalBytecode(results) ==
    LET named(k) == /\ results[k].global_bytecode # Undefined
                    /\ results[k].global_bytecode.variable_name.type = "string"
                    /\ Len(results[k].global_bytecode.variable_name.value) > 0
    IN IF \E k \in 1..Len(results) : named(k)
       THEN results[CHOOSE k \in 1..Len(results) :
                       named(k) /\ \A j \in 1..(k - 1) : ~named(j)].global_bytecode
       ELSE Undefined

mergeDetectionResults(results) ==
    IF Len(results) = 0
    THEN [summary |-> StringSummary(<<>>), global_bytecode |-> Undefined, regions |-> <<>>]
    ELSE IF Len(results) = 1
    THEN [summary |-> results[1].summary,
          global_bytecode |-> results[1].global_bytecode,
          regions |-> SortByStart(results[1].regions)]
    ELSE LET lastSummary == results[Len(results)].summary
         IN [summary |-> ObjectSummary(JoinSummaryParts(results, Len(results)),
                                       IF lastSummary.type = "string"
                                       THEN FallbackRecommendation
                                       ELSE lastSummary.debugging_recommendation),
             global_bytecode |-> MergedGlobalBytecode(results),
             regions |-> Deduplicate(SortByStart(AllRegions(results)))]

(***************************************************************************)
(* Detection-Result Parser: parseDetectionResult                           *)
(*                                                                         *)
(* A response text is held as the JSON value it denotes, or as NotJson     *)
(* when JSON.parse rejects it.  JSON values carry their type tag.          *)
(***************************************************************************)
NotJson == [type |-> "text"]

JNull == [type |-> "null"]

JString(text) == [type |-> "string", value |-> text]

JNumber(n) == [type |-> "number", value |-> n]

JArray(items) == [type |-> "array", items |-> items]

JObject(fields) == [type |-> "object", fields |-> fields]

\* obj[name]: undefined when the field is absent
Get(obj, name) ==
    IF obj.type = "object" /\ name \in DOMAIN obj.fields THEN obj.fields[name]
    ELSE Undefined

\* typeof v === 'object' && v !== null
IsNonNullObject(v) == v.type \in {"object", "array"}

\* Coalesce with the second operand preferred
CoalesceSecondFirst(a, b) == IF b.type \in {"undefined", "null"} THEN a ELSE b

\* a ?? b
Coalesce(a, b) == IF a.type \in {"undefined", "null"} THEN b ELSE a

VALID_DETECTION_TYPES == <<"If-Else Dispatcher", "Switch Dispatcher", "Instruction Array">>

VALID_CONFIDENCE_LEVELS == <<"ultra_high", "high", "medium", "low">>

isValidDetectionType(value) ==
    \E k \in 1..Len(VALID_DETECTION_TYPES) : VALID_DETECTION_TYPES[k] = value

isValidConfidenceLevel(value) ==
    \E k \in 1..Len(VALID_CONFIDENCE_LEVELS) : VALID_CONFIDENCE_LEVELS[k] = value

\* values.join(', ')
RECURSIVE JoinWith(_, _)
JoinWith(values, separator) ==
    IF Len(values) = 0 THEN <<>>
    ELSE IF Len(values) = 1 THEN values[1]
    ELSE JoinWith(SubSeq(values, 1, Len(values) - 1), separator)
            \o <<separator>> \o values[Len(values)]

Failure(message) == [ok |-> FALSE, message |-> message]

Success(value) == [ok |-> TRUE, value |-> value]

\* the messages are Chinese sentences in the source; the model keeps their
\* structure and the field they name
InvalidFormat == "invalid LLM response format, "

\* typeof v === 'string' ? v : null, and the same for numbers
StringOrNull(v) == IF v.type = "string" THEN v ELSE JNull

NumberOrNullValue(v) == IF v.type = "number" THEN v ELSE JNull

\* typeof v === 'string' ? v : ''
StringOrEmpty(v) == IF v.type = "string" THEN v.value ELSE <<>>

\* base with the field added when value is not undefined:
\* { ...base, ...(value && { [name]: value }) }
With(base, name, value) == IF value = Undefined THEN base ELSE base @@ (name :> value)

\* parseVMComponentVariable: null unless the role is an object with a
\* recognized confidence
parseVMComponentVariable(obj, fieldName) ==
    LET component == Get(obj, fieldName)
        confidence == Get(component, "confidence")
    IN IF ~IsNonNullObject(component) THEN JNull
       ELSE IF confidence.type # "string" \/ ~isValidConfidenceLevel(confidence.value)
       THEN JNull
       ELSE [variable_name |-> StringOrNull(Get(component, "variable_name")),
             line_number |-> NumberOrNullValue(Get(component, "line_number")),
             source_line |-> NumberOrNullValue(Get(component, "source_line")),
             source_column |-> NumberOrNullValue(Get(component, "source_column")),
             confidence |-> confidence.value,
             reasoning |-> StringOrEmpty(Get(component, "reasoning"))]

\* the role object used for a role that was not identified
UnidentifiedRole ==
    [variable_name |-> JNull, line_number |-> JNull, source_line |-> JNull,
     source_column |-> JNull, confidence |-> "low", reasoning |-> <<>>]

\* the loop_entry of vm_components, or undefined
parseLoopEntry(vmComponents) ==
    LET le == Get(vmComponents, "loop_entry")
    IN IF IsNonNullObject(le) /\ Get(le, "line_number").type = "number"
       THEN [line_number |-> Get(le, "line_number"),
             source_line |-> NumberOrNullValue(Get(le, "source_line")),
             source_column |-> NumberOrNullValue(Get(le, "source_column")),
             description |-> StringOrEmpty(Get(le, "description"))]
       ELSE Undefined

\* the breakpoint of vm_components, or undefined
parseBreakpoint(vmComponents) ==
    LET bp == Get(vmComponents, "breakpoint")
    IN IF IsNonNullObject(bp) /\ Get(bp, "line_number").type = "number"
       THEN [line_number |-> Get(bp, "line_number"),
             source_line |-> NumberOrNullValue(Get(bp, "source_line")),
             source_column |-> NumberOrNullValue(Get(bp, "source_column")),
             opcode_read_pattern |-> StringOrNull(Get(bp, "opcode_read_pattern")),
             description |-> StringOrEmpty(Get(bp, "description"))]
       ELSE Undefined

\* parseVMComponentsAlways with the roles filled in even when none of them
\* was identified
parseVMComponentsAlways(obj) ==
    LET vmComponents == Get(obj, "vm_components")
        role(name) == LET parsed == parseVMComponentVariable(vmComponents, name)
                      IN IF parsed = JNull THEN UnidentifiedRole ELSE parsed
    IN IF ~IsNonNullObject(vmComponents) THEN Undefined
       ELSE With(With([instruction_pointer |-> role("instruction_pointer"),
                       stack_pointer |-> role("stack_pointer"),
                       virtual_stack |-> role("virtual_stack"),
                       bytecode_array |-> role("bytecode_array")],
                      "loop_entry", parseLoopEntry(vmComponents)),
                 "breakpoint", parseBreakpoint(vmComponents))

\* parseVMComponents: undefined unless at least one role was identified
parseVMComponents(obj) ==
    LET vmComponents == Get(obj, "vm_components")
        role(name) == LET parsed == parseVMComponentVariable(vmComponents, name)
                      IN IF parsed = JNull THEN UnidentifiedRole ELSE parsed
        identified(name) == parseVMComponentVariable(vmComponents, name) # JNull
    IN IF ~IsNonNullObject(vmComponents) THEN Undefined
       ELSE IF /\ ~identified("instruction_pointer") /\ ~identified("stack_pointer")
               /\ ~identified("virtual_stack") /\ ~identified("bytecode_array")
       THEN Undefined
       ELSE With(With([instruction_pointer |-> role("instruction_pointer"),
                       stack_pointer |-> role("stack_pointer"),
                       virtual_stack |-> role("virtual_stack"),
                       bytecode_array |-> role("bytecode_array")],
                      "loop_entry", parseLoopEntry(vmComponents)),
                 "breakpoint", parseBreakpoint(vmComponents))

\* parseDebuggingEntryPoint: undefined unless an object with a line number
parseDebuggingEntryPoint(obj) ==
    LET entryPoint == Get(obj, "debugging_entry_point")
    IN IF ~IsNonNullObject(entryPoint) THEN Undefined
       ELSE IF Get(entryPoint, "line_number").type # "number" THEN Undefined
       ELSE [line_number |-> Get(entryPoint, "line_number"),
             description |-> StringOrEmpty(Get(entryPoint, "description"))]

\* parseGlobalBytecode: lenient, field by field
parseGlobalBytecode(obj) ==
    LET globalBytecode == Get(obj, "global_bytecode")
        stringOrNull(v) == IF v.type = "string" THEN v ELSE JNull
        numberOrNull(v) == IF v.type = "number" THEN v ELSE JNull
    IN IF ~IsNonNullObject(globalBytecode) THEN Undefined
       ELSE [variable_name |-> stringOrNull(Get(globalBytecode, "variable_name")),
             definition_line |-> numberOrNull(Get(globalBytecode, "definition_line")),
             source_line |-> numberOrNull(Get(globalBytecode, "source_line")),
             source_column |-> numberOrNull(Get(globalBytecode, "source_column")),
             description |-> IF Get(globalBytecode, "description").type = "string"
                             THEN Get(globalBytecode, "description").value ELSE <<>>]

\* the body of the loop over obj.regions for regions[i] (i is 0-based)
ValidateRegion(region, i) ==
    LET where == <<InvalidFormat, "regions[">> \o String(i) \o <<"]">>
        startLine == Coalesce(Get(region, "start_line"), Get(region, "start"))
        endLine == Coalesce(Get(region, "end_line"), Get(region, "end"))
    IN IF ~IsNonNullObject(region)
       THEN Failure(where \o <<" is not an object">>)
       ELSE IF startLine.type # "number"
       THEN Failure(where \o <<" missing required field: ", "start_line", " or ", "start">>)
       ELSE IF endLine.type # "number"
       THEN Failure(where \o <<" missing required field: ", "end_line", " or ", "end">>)
       ELSE IF Get(region, "type").type # "string"
       THEN Failure(where \o <<" missing required field: ", "type">>)
       ELSE IF Get(region, "confidence").type # "string"
       THEN Failure(where \o <<" missing required field: ", "confidence">>)
       ELSE IF Get(region, "description").type # "string"
       THEN Failure(where \o <<" missing required field: ", "description">>)
       ELSE IF ~isValidDetectionType(Get(region, "type").value)
       THEN Failure(where \o <<".type", " invalid value: ", Get(region, "type").value,
                               ". valid values: ">>
                          \o JoinWith([k \in 1..Len(VALID_DETECTION_TYPES) |->
                                          <<VALID_DETECTION_TYPES[k]>>], ", "))
       ELSE IF ~isValidConfidenceLevel(Get(region, "confidence").value)
       THEN Failure(where \o <<".confidence", " invalid value: ",
                               Get(region, "confidence").value, ". valid values: ">>
                          \o JoinWith([k \in 1..Len(VALID_CONFIDENCE_LEVELS) |->
                                          <<VALID_CONFIDENCE_LEVELS[k]>>], ", "))
       ELSE Success(With(With([start |-> startLine.value,
                               end |-> endLine.value,
                               type |-> Get(region, "type").value,
                               confidence |-> Get(region, "confidence").value,
                               description |-> Get(region, "description").value],
                              "vm_components", parseVMComponents(region)),
                         "debugging_entry_point", parseDebuggingEntryPoint(region)))

\* ValidateRegions with invalid regions left out of the result
RECURSIVE ValidateRegionsSkipInvalid(_, _)
ValidateRegionsSkipInvalid(items, n) ==
    IF n = 0 THEN Success(<<>>)
    ELSE LET before == ValidateRegionsSkipInvalid(items, n - 1)
             this == ValidateRegion(items[n], n - 1)
         IN IF ~this.ok THEN before
            ELSE Success(Append(before.value, this.value))

\* the loop over obj.regions: the first invalid region fails the parse
RECURSIVE ValidateRegions(_, _)
ValidateRegions(items, n) ==
    IF n = 0 THEN Success(<<>>)
    ELSE LET before == ValidateRegions(items, n - 1)
             this == ValidateRegion(items[n], n - 1)
         IN IF ~before.ok THEN before
            ELSE IF ~this.ok THEN this
            ELSE Success(Append(before.value, this.value))

\* ParseSummary with the fields of a summary object not checked
ParseSummaryUnchecked(summary) ==
    IF summary.type = "string" THEN Success(StringSummary(summary.value))
    ELSE IF IsNonNullObject(summary)
    THEN Success(ObjectSummary(StringOrEmpty(Get(summary, "overall_description")),
                               StringOrEmpty(Get(summary, "debugging_recommendation"))))
    ELSE Failure(<<InvalidFormat, "missing required field: ", "summary">>)

\* the summary in either accepted form, or a failure
ParseSummary(summary) ==
    IF summary.type = "string" THEN Success(StringSummary(summary.value))
    ELSE IF IsNonNullObject(summary)
    THEN IF \/ Get(summary, "overall_description").type # "string"
            \/ Get(summary, "debugging_recommendation").type # "string"
         THEN Failure(<<InvalidFormat, "summary", " object lacks required fields">>)
         ELSE Success(ObjectSummary(Get(summary, "overall_description").value,
                                    Get(summary, "debugging_recommendation").value))
    ELSE Failure(<<InvalidFormat, "missing required field: ", "summary">>)

\* returns Success(DetectionResult) or Failure(message of the Error thrown)
parseDetectionResult(response) ==
    IF response = NotJson
    THEN Failure(<<"cannot parse LLM response: ", "Unexpected token">>)
    ELSE IF ~IsNonNullObject(response)
    THEN Failure(<<InvalidFormat, "expected an object">>)
    ELSE LET summary == ParseSummary(Get(response, "summary"))
             regions == Get(response, "regions")
             validated == ValidateRegions(regions.items, Len(regions.items))
         IN IF ~summary.ok THEN summary
            ELSE IF regions.type # "array"
            THEN Failure(<<InvalidFormat, "missing required field: ", "regions">>)
            ELSE IF ~validated.ok THEN validated
            ELSE Success([summary |-> summary.value,
                          global_bytecode |-> parseGlobalBytecode(response),
                          regions |-> validated.value])

(***************************************************************************)
(* Report rendering: formatDetectionResultOutput                           *)
(***************************************************************************)
\* `${v}` of a number or null
NumberOrNull(v) == IF v.type = "number" THEN String(v.value) ELSE <<"null">>

formatSourceLoc(sourceLine, sourceColumn) ==
    IF sourceLine.type # "null" /\ sourceColumn.type # "null"
    THEN <<" [Src L">> \o String(sourceLine.value) \o <<":">>
            \o String(sourceColumn.value) \o <<"]">>
    ELSE <<>>

\* the lines of the report for results whose regions carry no VM components
\* and whose global_bytecode has no optional pattern fields
RegionBlock(regions, k) ==
    << <<"--- Instance ">> \o String(k) \o <<" ---">>,
       <<"[", regions[k].confidence, "] Lines ">> \o String(regions[k].start)
            \o <<"-">> \o String(regions[k].end) \o <<": ", regions[k].type>>,
       <<"  ">> \o regions[k].description,
       <<>> >>

RECURSIVE RegionBlocks(_, _)
RegionBlocks(regions, n) ==
    IF n = 0 THEN <<>> ELSE RegionBlocks(regions, n - 1) \o RegionBlock(regions, n)

formatDetectionResultOutput(result, filePath, fileLines, batchCount) ==
    << <<"=== JSVMP Dispatcher Detection Result ===">>,
       <<"File: ">> \o filePath \o <<" (">> \o String(fileLines) \o <<" lines, ">>
            \o String(batchCount) \o <<IF batchCount > 1 THEN " batches)" ELSE " batch)">>,
       <<>> >>
    \o (IF result.summary.type = "string"
        THEN << <<"Summary: ">> \o result.summary.value >>
        ELSE << <<"Summary: ">> \o result.summary.overall_description,
                <<"Recommendation: ">> \o result.summary.debugging_recommendation >>)
    \o << <<>> >>
    \o (IF result.global_bytecode # Undefined
        THEN << <<"Global Bytecode:">> >>
             \o (IF /\ result.global_bytecode.variable_name.type = "string"
                    /\ Len(result.global_bytecode.variable_name.value) > 0
                 THEN << <<"  Variable: ">> \o result.global_bytecode.variable_name.value
                            \o <<" (line ">>
                            \o NumberOrNull(result.global_bytecode.definition_line)
                            \o <<")">>
                            \o formatSourceLoc(result.global_bytecode.source_line,
                                               result.global_bytecode.source_column) >>
                 ELSE <<>>)
             \o (IF Len(result.global_bytecode.description) > 0
                 THEN << <<"  ">> \o result.global_bytecode.description >>
                 ELSE <<>>)
             \o << <<>> >>
        ELSE <<>>)
    \o (IF Len(result.regions) > 0
        THEN << <<"Detected Regions (">> \o String(Len(result.regions))
                    \o <<IF Len(result.regions) > 1 THEN " JSVMP instances):"
                         ELSE " JSVMP instance):">>,
                <<>> >>
             \o RegionBlocks(result.regions, Len(result.regions))
        ELSE << <<"No JSVMP dispatcher patterns detected.">> >>)

(***************************************************************************)
(* Batch Processor: processBatch, processBatchesWithErrorHandling          *)
(***************************************************************************)
\* what the model capability does with one call
Rejected(message) == [settled |-> "rejected", message |-> message]

Resolved(response) == [settled |-> "resolved", response |-> response]

\* processBatch: the awaited call, then the parser; Success(result) or the
\* Failure whose message the catch block reads
processBatch(outcome) ==
    IF outcome.settled = "rejected" THEN Failure(outcome.message)
    ELSE parseDetectionResult(outcome.response)

\* BatchErrorMessage with the 0-based loop index as the ordinal
BatchErrorMessageZeroBased(i, batch, message) ==
    <<"Batch ">> \o String(i) \o <<" (lines ">> \o String(batch.startLine)
        \o <<"-">> \o String(batch.endLine) \o <<") failed: ">> \o message

\* `Batch ${i + 1} (lines ${batch.startLine}-${batch.endLine}) failed: ${message}`
BatchErrorMessage(i, batch, message) ==
    <<"Batch ">> \o String(i + 1) \o <<" (lines ">> \o String(batch.startLine)
        \o <<"-">> \o String(batch.endLine) \o <<") failed: ">> \o message

\* NextBatchIndex with a failed batch tried again
NextBatchIndexRetryOnFailure(i, failed, n) == IF failed THEN i ELSE i + 1

\* NextBatchIndex with the run given up at the first failed batch
NextBatchIndexAbortOnFailure(i, failed, n) == IF failed THEN n ELSE i + 1

\* the loop index after the iteration for batch i (i++), failed or not
NextBatchIndex(i, failed, n) == i + 1

\* CallsToStart with every remaining batch dispatched at once
CallsToStartAllAtOnce(i, n) == i..(n - 1)

\* the model calls started when the loop reaches index i: the one for
\* batch i, awaited before anything else happens
CallsToStart(i, n) == IF i < n THEN {i} ELSE {}

(***************************************************************************)
(* findJsvmpDispatcher                                                     *)
(***************************************************************************)
\* the two fixed error texts are Chinese sentences in the source, named here
\* in ASCII
ConfigError == <<"LLM is not configured, set the environment variable OPENAI_API_KEY">>

FileNotFound(filePath) == <<"file does not exist: ">> \o filePath

\* a JsvmpDetectionResult; absent optional fields are Undefined
JsvmpDetectionResult(success, filePath, fileLines, batchCount, result, formattedOutput, error, partialErrors) ==
    [success |-> success, filePath |-> filePath, totalLines |-> fileLines,
     batchCount |-> batchCount, result |-> result,
     formattedOutput |-> formattedOutput, error |-> error,
     partialErrors |-> partialErrors]

\* EarlyReturn without the check that the file exists
EarlyReturnNoFileCheck(filePath, configured, exists) ==
    IF ~configured
    THEN JsvmpDetectionResult(FALSE, filePath, 0, 0, Undefined, Undefined,
                              JString(ConfigError), Undefined)
    ELSE Undefined

\* the two checks before the try block: the result returned at once, or
\* Undefined when the analysis goes ahead
EarlyReturn(filePath, configured, exists) ==
    IF ~configured
    THEN JsvmpDetectionResult(FALSE, filePath, 0, 0, Undefined, Undefined,
                              JString(ConfigError), Undefined)
    ELSE IF ~exists
    THEN JsvmpDetectionResult(FALSE, filePath, 0, 0, Undefined, Undefined,
                              JString(FileNotFound(filePath)), Undefined)
    ELSE Undefined

\* the catch block of findJsvmpDispatcher
CaughtError(filePath, message) ==
    JsvmpDetectionResult(FALSE, filePath, 0, 0, Undefined, Undefined,
                         JString(message), Undefined)

\* AllFailedError with the first per-batch error only
AllFailedErrorFirstOnly(es) ==
    <<"all batches failed: ">> \o (IF Len(es) > 0 THEN es[1] ELSE <<>>)

\* the aggregate error of a total failure: a fixed prefix (a Chinese phrase
\* in the source) and errors.join('; ')
AllFailedError(es) == <<"all batches failed: ">> \o JoinWith(es, "; ")

\* AfterBatches with a run that lost a batch reported as a failure
AfterBatchesFailsOnAnyError(filePath, fileLines, batchCount, rs, es) ==
    IF Len(rs) = 0 \/ Len(es) > 0
    THEN JsvmpDetectionResult(FALSE, filePath, fileLines, batchCount, Undefined, Undefined,
                              JString(AllFailedError(es)),
                              JArray(es))
    ELSE JsvmpDetectionResult(TRUE, filePath, fileLines, batchCount,
                              mergeDetectionResults(rs),
                              JString(formatDetectionResultOutput(
                                  mergeDetectionResults(rs), filePath, fileLines, batchCount)),
                              Undefined, Undefined)

\* what findJsvmpDispatcher returns once the batch processor has returned
AfterBatches(filePath, fileLines, batchCount, rs, es) ==
    IF Len(rs) = 0
    THEN JsvmpDetectionResult(FALSE, filePath, fileLines, batchCount, Undefined, Undefined,
                              JString(AllFailedError(es)),
                              JArray(es))
    ELSE JsvmpDetectionResult(TRUE, filePath, fileLines, batchCount,
                              mergeDetectionResults(rs),
                              JString(formatDetectionResultOutput(
                                  mergeDetectionResults(rs), filePath, fileLines, batchCount)),
                              Undefined,
                              IF Len(es) > 0 THEN JArray(es) ELSE Undefined)

(***************************************************************************)
(* LLM configuration: getLLMConfig (src/src/llmConfig.ts)                  *)
(*                                                                         *)
(* process.env is a record of the variables read; an unset variable is     *)
(* Undefined, a set one a JString of single characters or of fragments.    *)
(***************************************************************************)
UpperCaseLetters ==
    <<"A", "B", "C", "D", "E", "F", "G", "H", "I", "J", "K", "L", "M",
      "N", "O", "P", "Q", "R", "S", "T", "U", "V", "W", "X", "Y", "Z">>

LowerCaseLetters ==
    <<"a", "b", "c", "d", "e", "f", "g", "h", "i", "j", "k", "l", "m",
      "n", "o", "p", "q", "r", "s", "t", "u", "v", "w", "x", "y", "z">>

\* s.toLowerCase() for a string of ASCII characters
toLowerCase(s) ==
    [k \in 1..Len(s) |->
        IF \E j \in 1..26 : UpperCaseLetters[j] = s[k]
        THEN LowerCaseLetters[CHOOSE j \in 1..26 : UpperCaseLetters[j] = s[k]]
        ELSE s[k]]

\* the three values of LLMProvider
OpenAI == <<"o", "p", "e", "n", "a", "i">>

Anthropic == <<"a", "n", "t", "h", "r", "o", "p", "i", "c">>

Google == <<"g", "o", "o", "g", "l", "e">>

PROVIDER_DEFAULTS(provider) ==
    CASE provider = OpenAI -> [model |-> <<"gpt-4.1-mini">>]
      [] provider = Anthropic -> [model |-> <<"claude-haiku-4-5-20241022">>]
      [] provider = Google -> [model |-> <<"gemini-2.5-flash-lite">>]

\* PROVIDER_ENV_KEYS with the variables of openai for every provider
ProviderEnvKeysOpenAIOnly(provider) ==
    [apiKey |-> "OPENAI_API_KEY", model |-> "OPENAI_MODEL", baseUrl |-> "OPENAI_BASE_URL"]

PROVIDER_ENV_KEYS(provider) ==
    CASE provider = OpenAI ->
            [apiKey |-> "OPENAI_API_KEY", model |-> "OPENAI_MODEL",
             baseUrl |-> "OPENAI_BASE_URL"]
      [] provider = Anthropic ->
            [apiKey |-> "ANTHROPIC_API_KEY", model |-> "ANTHROPIC_MODEL",
             baseUrl |-> "ANTHROPIC_BASE_URL"]
      [] provider = Google ->
            [apiKey |-> "GOOGLE_API_KEY", model |-> "GOOGLE_MODEL",
             baseUrl |-> "GOOGLE_BASE_URL"]

\* the validated provider, or null
validateProvider(value) ==
    IF value = Undefined THEN JNull
    ELSE IF value.value = OpenAI \/ value.value = Anthropic \/ value.value = Google
    THEN value
    ELSE JNull

\* !v for a string or undefined
Falsy(v) == v = Undefined \/ Len(v.value) = 0

\* a || b
Or(a, b) == IF Falsy(a) THEN b ELSE a

\* returns [config, warned]: the LLMConfig or null, and whether the
\* warning about an invalid LLM_PROVIDER was written
getLLMConfig(processEnv) ==
    LET providerEnv == IF processEnv.LLM_PROVIDER = Undefined THEN Undefined
                       ELSE JString(toLowerCase(processEnv.LLM_PROVIDER.value))
        provider == validateProvider(providerEnv)
        effectiveProvider == IF provider = JNull THEN OpenAI ELSE provider.value
        envKeys == PROVIDER_ENV_KEYS(effectiveProvider)
        apiKey == processEnv[envKeys.apiKey]
    IN IF provider = JNull /\ providerEnv # Undefined
       THEN [config |-> JNull, warned |-> TRUE]
       ELSE IF Falsy(apiKey)
       THEN [config |-> JNull, warned |-> FALSE]
       ELSE [config |-> [provider |-> effectiveProvider,
                         apiKey |-> apiKey.value,
                         model |-> Or(Or(processEnv.LLM_MODEL, processEnv[envKeys.model]),
                                      JString(PROVIDER_DEFAULTS(effectiveProvider).model)).value,
                         baseUrl |-> Or(processEnv.LLM_BASE_URL, processEnv[envKeys.baseUrl])],
             warned |-> FALSE]

\* isLLMConfigured
isLLMConfigured(processEnv) == getLLMConfig(processEnv).config # JNull

VARIABLES
    pc,                 \* position of the running call
    lines,              \* splitByTokenLimit: the line array passed in
    lineTokens,         \* the encoder's token cost of each line (cyclic)
    maxTokensPerBatch,  \* the token budget passed in
    lineBatches,        \* splitByTokenLimit: the groups returned
    totalLines,         \* number of lines of the formatted file
    batches,            \* the BatchInfo list
    threw,              \* whether the call threw
    results,            \* the DetectionResult list (parsed, or passed in)
    mergedResult,       \* what mergeDetectionResults returned
    caller,             \* the entry point that was called from outside
    config,             \* whether getLLMConfig() returns a configuration
    fileExists,         \* what existsSync(filePath) returns
    batchIndex,         \* processBatchesWithErrorHandling: the loop variable i
    errors,             \* processBatchesWithErrorHandling: the error strings
    inFlight,           \* batch indices whose model call has not settled
    calls,              \* batch indices of the model calls, in start order
    settled,            \* the settled model calls and their outcomes, in order
    ret,                \* what findJsvmpDispatcher returned
    beautifierCalls,    \* number of calls of ensureBeautified
    tokenizerCalls,     \* number of calls of splitByTokenLimit
    jsonString,         \* parseDetectionResult: the response text passed in
    parseResult,        \* parseDetectionResult: the result, or the failure
    env,                \* process.env, as getLLMConfig reads it
    llmConfig,          \* what getLLMConfig returned
    warnings,           \* number of warnings written by getLLMConfig
    lineNumber,         \* formatCodeLine: the line number passed in
    sourcePos,          \* formatCodeLine: the source position passed in
    formattedLine,      \* what formatCodeLine returned
    extracted           \* what extractLineNumber returned for formattedLine

pipelineVars == <<caller, config, fileExists, batchIndex, errors, inFlight, calls, settled,
                  ret, beautifierCalls, tokenizerCalls>>

parserVars == <<jsonString, parseResult>>

configVars == <<env, llmConfig, warnings>>

formatterVars == <<lineNumber, sourcePos, formattedLine, extracted>>

vars == <<pc, lines, lineTokens, maxTokensPerBatch, lineBatches, totalLines,
          batches, threw, results, mergedResult, caller, config, fileExists,
          batchIndex, errors, inFlight, calls, settled, ret, beautifierCalls, tokenizerCalls,
          jsonString, parseResult, env, llmConfig, warnings,
          lineNumber, sourcePos, formattedLine, extracted>>

\* the parser's state while it is not called on its own
NoParserCall ==
    /\ jsonString = Undefined
    /\ parseResult = Undefined

\* the line formatter's state while it is not called on its own
NoFormatterCall ==
    /\ lineNumber = 0
    /\ sourcePos = <<>>
    /\ formattedLine = Undefined
    /\ extracted = Undefined

\* the configuration reader's state while it is not called on its own
NoConfigCall ==
    /\ env = Undefined
    /\ llmConfig = Undefined
    /\ warnings = 0

\* the pipeline's state while one of its functions is called on its own
NoPipelineCall ==
    /\ caller = "none"
    /\ config = FALSE
    /\ fileExists = FALSE
    /\ batchIndex = 0
    /\ errors = <<>>
    /\ inFlight = {}
    /\ calls = <<>>
    /\ settled = <<>>
    /\ ret = Undefined
    /\ beautifierCalls = 0
    /\ tokenizerCalls = 0

(***************************************************************************)
(* Direct calls of splitByTokenLimit                                       *)
(***************************************************************************)
\* the texts a line can have; equal lines get equal token costs
LineTexts == {<<"a">>, <<"b">>}

LineArrays == UNION {[1..n -> LineTexts] : n \in 0..MaxLines}

InitSplit ==
    /\ pc = "splitByTokenLimit"
    /\ lines \in LineArrays
    /\ \E encode \in [LineTexts -> 1..MaxCost] :
         lineTokens = IF Len(lines) = 0 THEN <<1>>
                      ELSE [p \in 1..Len(lines) |-> encode[lines[p]]]
    /\ maxTokensPerBatch \in -1..MaxTokens
    /\ lineBatches = <<>>
    /\ totalLines = 0
    /\ batches = <<>>
    /\ threw = FALSE
    /\ results = <<>>
    /\ mergedResult = Undefined
    /\ NoPipelineCall
    /\ NoParserCall
    /\ NoConfigCall
    /\ NoFormatterCall

SplitByTokenLimit ==
    /\ pc = "splitByTokenLimit"
    /\ LET r == splitByTokenLimit(lines, maxTokensPerBatch, lineTokens)
       IN /\ lineBatches' = r.batches
          /\ threw' = r.threw
    /\ pc' = "returned"
    /\ UNCHANGED <<lines, lineTokens, maxTokensPerBatch, totalLines, batches,
                   results, mergedResult>>
    /\ UNCHANGED pipelineVars
    /\ UNCHANGED parserVars
    /\ UNCHANGED configVars
    /\ UNCHANGED formatterVars

NextSplit == SplitByTokenLimit

SpecSplit == InitSplit /\ [][NextSplit]_vars

(***************************************************************************)
(* Direct calls of createBatches on a formatted file                       *)
(***************************************************************************)
\* the first line number that does not fit the width of the number column
FirstWideLine == 10 ^ LineNoWidth

\* files: small ones with every cost assignment and small budgets (0, which
\* is rejected, included), and one large file analysed with the default
\* budget and a uniform cost per line.  The file is held as its line count:
\* its formatted lines are formatEntireFile(totalLines).
InitBatch ==
    /\ pc = "createBatches"
    /\ \/ /\ totalLines \in 0..MaxLines
          /\ maxTokensPerBatch \in 0..MaxTokens
          /\ lineTokens \in [1..(IF totalLines = 0 THEN 1 ELSE totalLines) -> 1..MaxCost]
       \/ /\ totalLines = FirstWideLine
          /\ maxTokensPerBatch = DefaultMaxTokensPerBatch
          /\ \E c \in 1..MaxCost : lineTokens = <<c>>
    /\ lines = <<>>
    /\ lineBatches = <<>>
    /\ batches = <<>>
    /\ threw = FALSE
    /\ results = <<>>
    /\ mergedResult = Undefined
    /\ NoPipelineCall
    /\ NoParserCall
    /\ NoConfigCall
    /\ NoFormatterCall

CreateBatches ==
    /\ pc = "createBatches"
    /\ LET r == createBatches(formatEntireFile(totalLines), maxTokensPerBatch, lineTokens)
       IN /\ batches' = r.batches
          /\ threw' = r.threw
    /\ pc' = "returned"
    /\ UNCHANGED <<lines, lineTokens, maxTokensPerBatch, lineBatches, totalLines,
                   results, mergedResult>>
    /\ UNCHANGED pipelineVars
    /\ UNCHANGED parserVars
    /\ UNCHANGED configVars
    /\ UNCHANGED formatterVars

NextBatch == CreateBatches

SpecBatch == InitBatch /\ [][NextBatch]_vars

(***************************************************************************)
(* Direct calls of mergeDetectionResults                                   *)
(***************************************************************************)
ConfidenceLevels == {"ultra_high", "high", "medium", "low"}

\* the line ranges a parsed region can carry: the parser checks that start
\* and end are numbers, not that start <= end.  The four ranges are
\* equal, nested, touching, adjacent or inverted with respect to each other.
RegionRanges == {<<1, 0>>, <<1, 1>>, <<1, 2>>, <<2, 2>>}

\* the k-th region of the combined input; the description tells regions of
\* equal range and confidence apart
Region(k, range, confidence) ==
    [start |-> range[1], end |-> range[2], type |-> "Switch Dispatcher",
     confidence |-> confidence, description |-> <<"region ">> \o String(k)]

\* the regions of the combined input, from their ranges and confidences
Regions(rc) == [k \in 1..Len(rc) |-> Region(k, rc[k][1], rc[k][2])]

Result(k, regions) ==
    [summary |-> StringSummary(<<"summary ">> \o String(k)),
     global_bytecode |-> Undefined,
     regions |-> regions]

\* the two forms of summary result k can carry
Summaries(k) ==
    { StringSummary(<<"summary ">> \o String(k)),
      ObjectSummary(<<"description ">> \o String(k), <<"recommendation ">> \o String(k)) }

\* one result holding all the regions, with a summary of either form, or
\* two results holding the first cut regions and the rest
InitMerge ==
    /\ pc = "mergeDetectionResults"
    /\ \E n \in 0..MaxRegions :
         \E rc \in [1..n -> RegionRanges \X ConfidenceLevels] :
            \/ \E summary \in Summaries(1) :
                  results = <<[Result(1, Regions(rc)) EXCEPT !.summary = summary]>>
            \/ \E cut \in 0..n :
                  results = <<Result(1, SubSeq(Regions(rc), 1, cut)),
                              Result(2, SubSeq(Regions(rc), cut + 1, n))>>
    /\ mergedResult = Undefined
    /\ lines = <<>>
    /\ lineTokens = <<1>>
    /\ maxTokensPerBatch = 0
    /\ lineBatches = <<>>
    /\ totalLines = 0
    /\ batches = <<>>
    /\ threw = FALSE
    /\ NoPipelineCall
    /\ NoParserCall
    /\ NoConfigCall
    /\ NoFormatterCall

MergeDetectionResults ==
    /\ pc = "mergeDetectionResults"
    /\ mergedResult' = mergeDetectionResults(results)
    /\ pc' = "returned"
    /\ UNCHANGED <<lines, lineTokens, maxTokensPerBatch, lineBatches, totalLines,
                   batches, threw, results>>
    /\ UNCHANGED pipelineVars
    /\ UNCHANGED parserVars
    /\ UNCHANGED configVars
    /\ UNCHANGED formatterVars

NextMerge == MergeDetectionResults

SpecMerge == InitMerge /\ [][NextMerge]_vars

(***************************************************************************)
(* Direct calls of mergeDetectionResults on results that differ in their   *)
(* summary and their global bytecode descriptor                            *)
(***************************************************************************)
\* a descriptor as parseGlobalBytecode builds it
GlobalBytecodeInfo(name) ==
    [variable_name |-> name, definition_line |-> JNull, source_line |-> JNull,
     source_column |-> JNull, description |-> <<"bytecode">>]

\* up to MaxResults results, result k with one region on line k, a summary
\* of either form, and as global_bytecode nothing, a descriptor whose
\* variable_name is null, one whose name is the empty string, or a named one
InitMergeSummary ==
    /\ pc = "mergeDetectionResults"
    /\ \E n \in 0..MaxResults :
         \E summaryOf \in [1..n -> {"string", "object"}] :
            \E bytecodeOf \in [1..n -> 1..4] :
               results = [k \in 1..n |->
                   [summary |-> CHOOSE v \in Summaries(k) : v.type = summaryOf[k],
                    global_bytecode |->
                        CASE bytecodeOf[k] = 1 -> Undefined
                          [] bytecodeOf[k] = 2 -> GlobalBytecodeInfo(JNull)
                          [] bytecodeOf[k] = 3 -> GlobalBytecodeInfo(JString(<<>>))
                          [] OTHER -> GlobalBytecodeInfo(JString(<<"bc">> \o String(k))),
                    regions |-> <<Region(k, <<k, k>>, "high")>>]]
    /\ mergedResult = Undefined
    /\ lines = <<>>
    /\ lineTokens = <<1>>
    /\ maxTokensPerBatch = 0
    /\ lineBatches = <<>>
    /\ totalLines = 0
    /\ batches = <<>>
    /\ threw = FALSE
    /\ NoPipelineCall
    /\ NoParserCall
    /\ NoConfigCall
    /\ NoFormatterCall

SpecMergeSummary == InitMergeSummary /\ [][NextMerge]_vars

(***************************************************************************)
(* The pipeline: findJsvmpDispatcher and processBatchesWithErrorHandling   *)
(* called from outside, the beautifier and the model being the environment *)
(***************************************************************************)
FilePath == <<"/path/to/file.js">>

\* a region object of a response
RegionObject(start, end, type, confidence) ==
    JObject([start_line |-> JNumber(start), end_line |-> JNumber(end),
             type |-> JString(type), confidence |-> JString(confidence),
             description |-> JString(<<"dispatch loop">>)])

\* the response texts the model can produce: not JSON at all, JSON without
\* the summary, a region with an unknown confidence, and two well-formed
\* responses whose regions overlap (string summary; object summary with a
\* global bytecode)
Responses ==
    { NotJson,
      JObject([regions |-> JArray(<<>>)]),
      JObject([summary |-> JString(<<"one loop">>),
               regions |-> JArray(<<RegionObject(1, 2, "Switch Dispatcher", "certain")>>)]),
      JObject([summary |-> JString(<<"switch loop">>),
               regions |-> JArray(<<RegionObject(1, 2, "Switch Dispatcher", "medium")>>)]),
      JObject([summary |-> JObject([overall_description |-> JString(<<"if-else chain">>),
                                    debugging_recommendation |-> JString(<<"break at 2">>)]),
               regions |-> JArray(<<RegionObject(2, 3, "If-Else Dispatcher", "high")>>),
               global_bytecode |-> JObject([variable_name |-> JString(<<"bc">>),
                                            description |-> JString(<<"opcodes">>)])]) }

\* what a model call can do: reject, or resolve with a response
Outcomes == {Rejected(<<"LLM request failed: ", "timeout">>)}
                \cup {Resolved(response) : response \in Responses}

\* the elements of a set of numbers in increasing order
RECURSIVE InOrder(_)
InOrder(S) ==
    IF S = {} THEN <<>>
    ELSE LET least == CHOOSE m \in S : \A k \in S : m <= k
         IN <<least>> \o InOrder(S \ {least})

InitFind ==
    /\ pc = "findJsvmpDispatcher"
    /\ caller = "findJsvmpDispatcher"
    /\ config \in BOOLEAN
    /\ fileExists \in BOOLEAN
    /\ maxTokensPerBatch \in 0..MaxTokens
    /\ lines = <<>>
    /\ lineTokens = <<1>>
    /\ lineBatches = <<>>
    /\ totalLines = 0
    /\ batches = <<>>
    /\ threw = FALSE
    /\ results = <<>>
    /\ mergedResult = Undefined
    /\ batchIndex = 0
    /\ errors = <<>>
    /\ inFlight = {}
    /\ calls = <<>>
    /\ settled = <<>>
    /\ ret = Undefined
    /\ beautifierCalls = 0
    /\ tokenizerCalls = 0
    /\ NoParserCall
    /\ NoConfigCall
    /\ NoFormatterCall

\* a direct call of processBatchesWithErrorHandling with the batch list of a
\* small file (the empty list included)
InitProcess ==
    /\ pc = "processBatchesWithErrorHandling"
    /\ caller = "processBatchesWithErrorHandling"
    /\ config = TRUE
    /\ fileExists = TRUE
    /\ totalLines \in 0..MaxLines
    /\ maxTokensPerBatch \in 1..MaxTokens
    /\ \E enc \in [1..(IF totalLines = 0 THEN 1 ELSE totalLines) -> 1..MaxCost] :
          batches = createBatches(formatEntireFile(totalLines), maxTokensPerBatch, enc).batches
    /\ lines = <<>>
    /\ lineTokens = <<1>>
    /\ lineBatches = <<>>
    /\ threw = FALSE
    /\ results = <<>>
    /\ mergedResult = Undefined
    /\ batchIndex = 0
    /\ errors = <<>>
    /\ inFlight = {}
    /\ calls = <<>>
    /\ settled = <<>>
    /\ ret = Undefined
    /\ beautifierCalls = 0
    /\ tokenizerCalls = 0
    /\ NoParserCall
    /\ NoConfigCall
    /\ NoFormatterCall

Init == InitFind \/ InitProcess

\* processBatchesWithErrorHandling from its entry, or from the settlement of
\* the awaited call, up to the next await or the return: the loop is at
\* index next with the lists rs and es over the batch list bs.  When the
\* loop has ended, the processor returns and findJsvmpDispatcher, if it is
\* the caller, runs to its return.
RunProcessor(bs, fileLines, next, rs, es, pending) ==
    LET started == CallsToStart(next, Len(bs))
    IN /\ batchIndex' = next
       /\ results' = rs
       /\ errors' = es
       /\ inFlight' = pending \cup started
       /\ calls' = calls \o InOrder(started)
       /\ IF next < Len(bs)
          THEN /\ pc' = "analyzeJSVMP"
               /\ UNCHANGED <<ret, mergedResult>>
          ELSE /\ pc' = "returned"
               /\ IF caller = "findJsvmpDispatcher"
                  THEN /\ ret' = AfterBatches(FilePath, fileLines, Len(bs), rs, es)
                       /\ mergedResult' = ret'.result
                  ELSE UNCHANGED <<ret, mergedResult>>

\* findJsvmpDispatcher from its entry to the await of the beautifier, or to
\* an early return
FindStart ==
    /\ pc = "findJsvmpDispatcher"
    /\ LET early == EarlyReturn(FilePath, config, fileExists)
       IN IF early # Undefined
          THEN /\ ret' = early
               /\ pc' = "returned"
               /\ UNCHANGED beautifierCalls
          ELSE /\ ret' = ret
               /\ pc' = "ensureBeautified"
               /\ beautifierCalls' = beautifierCalls + 1
    /\ UNCHANGED <<lines, lineTokens, maxTokensPerBatch, lineBatches, totalLines,
                   batches, threw, results, mergedResult, caller, config, fileExists,
                   batchIndex, errors, inFlight, calls, settled, tokenizerCalls>>
    /\ UNCHANGED parserVars
    /\ UNCHANGED configVars
    /\ UNCHANGED formatterVars

\* the beautifier rejects: formatEntireFile rejects and the catch block of
\* findJsvmpDispatcher returns
BeautifierRejected ==
    /\ pc = "ensureBeautified"
    /\ ret' = CaughtError(FilePath, <<"beautify failed">>)
    /\ pc' = "returned"
    /\ UNCHANGED <<lines, lineTokens, maxTokensPerBatch, lineBatches, totalLines,
                   batches, threw, results, mergedResult, caller, config, fileExists,
                   batchIndex, errors, inFlight, calls, settled, beautifierCalls,
                   tokenizerCalls>>
    /\ UNCHANGED parserVars
    /\ UNCHANGED configVars
    /\ UNCHANGED formatterVars

\* the beautifier resolves with a file of n lines: the file is formatted and
\* cut into batches, and the batch processor runs to its first await
BeautifierResolved ==
    /\ pc = "ensureBeautified"
    /\ \E n \in 1..MaxLines :
         \E enc \in [1..n -> 1..MaxCost] :
            LET created == createBatches(formatEntireFile(n), maxTokensPerBatch, enc)
            IN /\ totalLines' = n
               /\ tokenizerCalls' = tokenizerCalls + 1
               /\ threw' = created.threw
               /\ batches' = created.batches
               /\ IF created.threw
                  THEN /\ ret' = CaughtError(FilePath,
                                             <<"maxTokens must be a positive number">>)
                       /\ pc' = "returned"
                       /\ UNCHANGED <<batchIndex, results, errors, inFlight, calls,
                                      mergedResult>>
                  ELSE RunProcessor(created.batches, n, 0, <<>>, <<>>, {})
    /\ UNCHANGED <<lines, lineTokens, maxTokensPerBatch, lineBatches, caller, config,
                   fileExists, settled, beautifierCalls>>
    /\ UNCHANGED parserVars
    /\ UNCHANGED configVars
    /\ UNCHANGED formatterVars

\* a direct call of processBatchesWithErrorHandling runs to its first await
ProcessStart ==
    /\ pc = "processBatchesWithErrorHandling"
    /\ RunProcessor(batches, totalLines, 0, <<>>, <<>>, {})
    /\ UNCHANGED <<lines, lineTokens, maxTokensPerBatch, lineBatches, totalLines,
                   batches, threw, caller, config, fileExists, settled,
                   beautifierCalls, tokenizerCalls>>
    /\ UNCHANGED parserVars
    /\ UNCHANGED configVars
    /\ UNCHANGED formatterVars

\* the awaited model call settles: processBatch parses or throws, the loop
\* body appends a result or an error string, and the loop goes on
CallSettled ==
    /\ pc = "analyzeJSVMP"
    /\ batchIndex \in inFlight
    /\ \E outcome \in Outcomes :
         LET batch == batches[batchIndex + 1]
             done == processBatch(outcome)
         IN /\ settled' = Append(settled, [batch |-> batchIndex, outcome |-> outcome])
            /\ RunProcessor(batches, totalLines,
                            NextBatchIndex(batchIndex, ~done.ok, Len(batches)),
                            IF done.ok THEN Append(results, done.value) ELSE results,
                            IF done.ok THEN errors
                            ELSE Append(errors,
                                        BatchErrorMessage(batchIndex, batch, done.message)),
                            inFlight \ {batchIndex})
    /\ UNCHANGED <<lines, lineTokens, maxTokensPerBatch, lineBatches, totalLines,
                   batches, threw, caller, config, fileExists, beautifierCalls,
                   tokenizerCalls>>
    /\ UNCHANGED parserVars
    /\ UNCHANGED configVars
    /\ UNCHANGED formatterVars

Next == FindStart \/ BeautifierRejected \/ BeautifierResolved \/ ProcessStart
            \/ CallSettled

Spec == Init /\ [][Next]_vars

(***************************************************************************)
(* Direct calls of parseDetectionResult                                    *)
(***************************************************************************)
\* the JSON object with the fields of fieldValues that are not undefined
Object(fieldValues) ==
    JObject([name \in {n \in DOMAIN fieldValues : fieldValues[n] # Undefined}
                |-> fieldValues[name]])

\* what each field of a region object can be: absent (Undefined), of a
\* wrong type, or a value; the current and the legacy names of a line
\* number carry different numbers, and an end can be below a start
StartLineValues == {Undefined, JNull, JString("2"), JNumber(2), JNumber(3)}

StartValues == {Undefined, JString("1"), JNumber(1), JNumber(2)}

EndLineValues == {Undefined, JNull, JString("3"), JNumber(1), JNumber(3)}

EndValues == {Undefined, JString("4"), JNumber(1), JNumber(4)}

TypeValues ==
    {Undefined, JNumber(7), JString("If-Else Dispatcher"), JString("Switch Dispatcher"),
     JString("Instruction Array"), JString("Stack Operation"), JString("Loop")}

ConfidenceValues ==
    {Undefined, JNumber(1), JString("ultra_high"), JString("low"), JString("certain")}

DescriptionValues == {Undefined, JNumber(0), JString(<<"dispatch loop">>)}

\* what the summary of a response can be
SummaryValues ==
    { Undefined, JNull, JNumber(1), JArray(<<>>), JString(<<"one loop">>),
      JObject([overall_description |-> JString(<<"if-else chain">>),
               debugging_recommendation |-> JString(<<"break at 2">>)]),
      JObject([overall_description |-> JString(<<"if-else chain">>),
               debugging_recommendation |-> JString(<<"break at 2">>),
               notes |-> JString(<<"obfuscated">>)]),
      JObject([overall_description |-> JString(<<"if-else chain">>)]),
      JObject([debugging_recommendation |-> JString(<<"break at 2">>)]),
      JObject([overall_description |-> JString(<<"if-else chain">>),
               debugging_recommendation |-> JNumber(2)]),
      JObject([overall_description |-> JNull,
               debugging_recommendation |-> JString(<<"break at 2">>)]) }

\* a region object that passes every check, on line k
ValidRegionObject(k) == RegionObject(k, k, "Switch Dispatcher", "high")

\* what the regions of a response can be when they are not the subject
RegionsValues ==
    { Undefined, JNull, JNumber(0), JObject([length |-> JNumber(0)]),
      JArray(<<>>), JArray(<<ValidRegionObject(1)>>) }

\* items of regions that are not region objects
NonRegionItems == {JNull, JNumber(1), JString("region"), JArray(<<>>)}

\* a role of vm_components: absent, null, identified, with a confidence
\* outside the enumeration, without a confidence, identified with
\* wrong-typed fields
RoleValues ==
    { Undefined, JNull,
      JObject([variable_name |-> JString(<<"pc">>), line_number |-> JNumber(3),
               confidence |-> JString("high"), reasoning |-> JString(<<"index">>)]),
      JObject([variable_name |-> JString(<<"pc">>), confidence |-> JString("certain")]),
      JObject([variable_name |-> JString(<<"pc">>), line_number |-> JNumber(3)]),
      JObject([variable_name |-> JNumber(0), line_number |-> JString("3"),
               source_line |-> JNull, confidence |-> JString("medium"),
               reasoning |-> JNumber(1)]) }

LoopEntryValues ==
    { Undefined,
      JObject([line_number |-> JNumber(2), description |-> JString(<<"loop head">>)]),
      JObject([line_number |-> JString("2"), description |-> JString(<<"loop head">>)]) }

BreakpointValues ==
    { Undefined,
      JObject([line_number |-> JNumber(3), opcode_read_pattern |-> JNumber(0)]) }

\* vm_components values that are not objects with roles
NonVmComponents == {JNull, JString("none"), JNumber(0), JArray(<<>>)}

EntryPointValues ==
    { Undefined, JNull, JString("3"),
      JObject([line_number |-> JNumber(3), description |-> JString(<<"entry">>)]),
      JObject([line_number |-> JNumber(3), description |-> JNumber(0)]),
      JObject([description |-> JString(<<"entry">>)]) }

GlobalBytecodeValues ==
    { Undefined, JNull, JString("bc"), JArray(<<>>),
      JObject([variable_name |-> JString(<<"bc">>), definition_line |-> JNumber(1),
               description |-> JString(<<"opcodes">>)]),
      JObject([variable_name |-> JNumber(0), definition_line |-> JString("1"),
               description |-> JNull]) }

\* responses that are not objects, and objects with every shape of summary
\* and of regions
TopLevelResponses ==
    {NotJson, JNull, JNumber(1), JString(<<"none">>), JArray(<<>>)}
        \cup {Object([summary |-> s, regions |-> r]) : s \in SummaryValues, r \in RegionsValues}

\* a response with a valid summary and n regions, the one at position at
\* being item and the others valid
ResponseWithRegion(n, at, item) ==
    JObject([summary |-> JString(<<"one loop">>),
             regions |-> JArray([k \in 1..n |-> IF k = at THEN item
                                               ELSE ValidRegionObject(k)])])

InitParse ==
    /\ pc = "parseDetectionResult"
    /\ \/ jsonString \in TopLevelResponses
       \/ \E n \in 1..MaxResponseRegions, at \in 1..MaxResponseRegions :
             /\ at <= n
             /\ \/ \E item \in NonRegionItems : jsonString = ResponseWithRegion(n, at, item)
                \/ \E startLine \in StartLineValues, start \in StartValues,
                      endLine \in EndLineValues, end \in EndValues, type \in TypeValues,
                      confidence \in ConfidenceValues, description \in DescriptionValues :
                      jsonString = ResponseWithRegion(n, at,
                          Object([start_line |-> startLine, start |-> start,
                                  end_line |-> endLine, end |-> end, type |-> type,
                                  confidence |-> confidence, description |-> description]))
       \/ \E vm \in NonVmComponents, entryPoint \in EntryPointValues,
             globalBytecode \in GlobalBytecodeValues :
             jsonString = Object(
                 [summary |-> JString(<<"one loop">>),
                  global_bytecode |-> globalBytecode,
                  regions |-> JArray(<<Object(
                      [start_line |-> JNumber(1), end_line |-> JNumber(2),
                       type |-> JString("Switch Dispatcher"),
                       confidence |-> JString("high"),
                       description |-> JString(<<"dispatch loop">>),
                       vm_components |-> vm,
                       debugging_entry_point |-> entryPoint])>>)])
       \/ \E ip \in RoleValues, sp \in RoleValues, stack \in RoleValues,
             bytecode \in RoleValues, loopEntry \in LoopEntryValues,
             breakpoint \in BreakpointValues :
             jsonString = Object(
                 [summary |-> JString(<<"one loop">>),
                  regions |-> JArray(<<Object(
                      [start_line |-> JNumber(1), end_line |-> JNumber(2),
                       type |-> JString("Switch Dispatcher"),
                       confidence |-> JString("high"),
                       description |-> JString(<<"dispatch loop">>),
                       vm_components |-> Object(
                           [instruction_pointer |-> ip, stack_pointer |-> sp,
                            virtual_stack |-> stack, bytecode_array |-> bytecode,
                            loop_entry |-> loopEntry, breakpoint |-> breakpoint])])>>)])
    /\ parseResult = Undefined
    /\ lines = <<>>
    /\ lineTokens = <<1>>
    /\ maxTokensPerBatch = 0
    /\ lineBatches = <<>>
    /\ totalLines = 0
    /\ batches = <<>>
    /\ threw = FALSE
    /\ results = <<>>
    /\ mergedResult = Undefined
    /\ NoPipelineCall
    /\ NoConfigCall
    /\ NoFormatterCall

ParseDetectionResult ==
    /\ pc = "parseDetectionResult"
    /\ parseResult' = parseDetectionResult(jsonString)
    /\ pc' = "returned"
    /\ UNCHANGED <<lines, lineTokens, maxTokensPerBatch, lineBatches, totalLines,
                   batches, threw, results, mergedResult, jsonString>>
    /\ UNCHANGED pipelineVars
    /\ UNCHANGED configVars
    /\ UNCHANGED formatterVars

NextParse == ParseDetectionResult

SpecParse == InitParse /\ [][NextParse]_vars

(***************************************************************************)
(* Direct calls of getLLMConfig                                            *)
(***************************************************************************)
\* what LLM_PROVIDER can be: unset, empty, a provider in lower, mixed or
\* upper case, another name, a provider with a leading space
ProviderValues ==
    { Undefined, JString(<<>>), JString(OpenAI),
      JString(<<"O", "p", "e", "n", "A", "I">>),
      JString(Anthropic),
      JString(<<"A", "N", "T", "H", "R", "O", "P", "I", "C">>),
      JString(Google),
      JString(<<"a", "z", "u", "r", "e">>),
      JString(<<" ">> \o OpenAI) }

\* what the API-key variable of a provider can be: unset, empty, or a key
\* that names the provider
ApiKeyValues(provider) == {Undefined, JString(<<>>), JString(<<"key-">> \o provider)}

\* the value of a provider-specific model or base-URL variable when set
ProviderSetting(set, text, provider) ==
    IF set THEN JString(<<text>> \o provider) ELSE Undefined

InitConfig ==
    /\ pc = "getLLMConfig"
    /\ \E provider \in ProviderValues,
          openaiKey \in ApiKeyValues(OpenAI),
          anthropicKey \in ApiKeyValues(Anthropic),
          googleKey \in ApiKeyValues(Google),
          llmModel \in {Undefined, JString(<<>>), JString(<<"custom-model">>)},
          providerModels \in BOOLEAN,
          llmBaseUrl \in {Undefined, JString(<<"https://proxy">>)},
          providerBaseUrls \in BOOLEAN :
          env = [LLM_PROVIDER |-> provider,
                 OPENAI_API_KEY |-> openaiKey,
                 ANTHROPIC_API_KEY |-> anthropicKey,
                 GOOGLE_API_KEY |-> googleKey,
                 LLM_MODEL |-> llmModel,
                 OPENAI_MODEL |-> ProviderSetting(providerModels, "model-", OpenAI),
                 ANTHROPIC_MODEL |-> ProviderSetting(providerModels, "model-", Anthropic),
                 GOOGLE_MODEL |-> ProviderSetting(providerModels, "model-", Google),
                 LLM_BASE_URL |-> llmBaseUrl,
                 OPENAI_BASE_URL |-> ProviderSetting(providerBaseUrls, "https://", OpenAI),
                 ANTHROPIC_BASE_URL |->
                     ProviderSetting(providerBaseUrls, "https://", Anthropic),
                 GOOGLE_BASE_URL |-> ProviderSetting(providerBaseUrls, "https://", Google)]
    /\ llmConfig = Undefined
    /\ warnings = 0
    /\ lines = <<>>
    /\ lineTokens = <<1>>
    /\ maxTokensPerBatch = 0
    /\ lineBatches = <<>>
    /\ totalLines = 0
    /\ batches = <<>>
    /\ threw = FALSE
    /\ results = <<>>
    /\ mergedResult = Undefined
    /\ NoPipelineCall
    /\ NoParserCall
    /\ NoFormatterCall

GetLLMConfig ==
    /\ pc = "getLLMConfig"
    /\ LET r == getLLMConfig(env)
       IN /\ llmConfig' = r.config
          /\ warnings' = IF r.warned THEN warnings + 1 ELSE warnings
    /\ pc' = "returned"
    /\ UNCHANGED <<lines, lineTokens, maxTokensPerBatch, lineBatches, totalLines,
                   batches, threw, results, mergedResult, env>>
    /\ UNCHANGED pipelineVars
    /\ UNCHANGED parserVars
    /\ UNCHANGED formatterVars

NextConfig == GetLLMConfig

SpecConfig == InitConfig /\ [][NextConfig]_vars

(***************************************************************************)
(* Direct calls of formatCodeLine, and of extractLineNumber on the line    *)
(* it returns                                                              *)
(***************************************************************************)
\* `L${line}:${column}`, or '' without a source position
formatSourcePosition(line, column) ==
    IF line # JNull /\ column # JNull
    THEN <<"L">> \o String(line.value) \o <<":">> \o String(column.value)
    ELSE <<>>

\* line numbers of one to seven digits, those around the width of the
\* number column included
LineNumbers ==
    (1..20) \cup {99, 100, 999, 1000, 9999, 10000, 12345, 99998, 99999,
                  FirstWideLine, FirstWideLine + 1, 123456, 999999, 1000000}

\* the source positions a line can have: none, or a line and a column
SourcePositions ==
    { formatSourcePosition(JNull, JNull),
      formatSourcePosition(JNumber(1), JNumber(0)),
      formatSourcePosition(JNumber(12345), JNumber(67890)) }

InitFormat ==
    /\ pc = "formatCodeLine"
    /\ lineNumber \in LineNumbers
    /\ sourcePos \in SourcePositions
    /\ formattedLine = Undefined
    /\ extracted = Undefined
    /\ lines = <<>>
    /\ lineTokens = <<1>>
    /\ maxTokensPerBatch = 0
    /\ lineBatches = <<>>
    /\ totalLines = 0
    /\ batches = <<>>
    /\ threw = FALSE
    /\ results = <<>>
    /\ mergedResult = Undefined
    /\ NoPipelineCall
    /\ NoParserCall
    /\ NoConfigCall

FormatCodeLine ==
    /\ pc = "formatCodeLine"
    /\ formattedLine' = JString(formatCodeLine(lineNumber, sourcePos, <<"c">>))
    /\ pc' = "extractLineNumber"
    /\ UNCHANGED <<lines, lineTokens, maxTokensPerBatch, lineBatches, totalLines,
                   batches, threw, results, mergedResult, lineNumber, sourcePos,
                   extracted>>
    /\ UNCHANGED pipelineVars
    /\ UNCHANGED parserVars
    /\ UNCHANGED configVars

ExtractLineNumber ==
    /\ pc = "extractLineNumber"
    /\ extracted' = JNumber(extractLineNumber(formattedLine.value))
    /\ pc' = "returned"
    /\ UNCHANGED <<lines, lineTokens, maxTokensPerBatch, lineBatches, totalLines,
                   batches, threw, results, mergedResult, lineNumber, sourcePos,
                   formattedLine>>
    /\ UNCHANGED pipelineVars
    /\ UNCHANGED parserVars
    /\ UNCHANGED configVars

NextFormat == FormatCodeLine \/ ExtractLineNumber

SpecFormat == InitFormat /\ [][NextFormat]_vars

(***************************************************************************)
(* Claims about the tokenizer's split (checked under SpecSplit)            *)
(***************************************************************************)
RECURSIVE Flatten(_)
Flatten(groups) == IF Len(groups) = 0 THEN <<>>
                   ELSE Flatten(SubSeq(groups, 1, Len(groups) - 1)) \o groups[Len(groups)]

SplitReturned == /\ pc = "returned"
                 /\ Len(lines) > 0
                 /\ maxTokensPerBatch > 0

\* C3: for a non-empty line array and a positive maxTokens, the groups
\* returned by splitByTokenLimit, concatenated in order, are exactly the
\* input lines (whole lines, same order, none lost or duplicated), and no
\* group is empty.
C3_SplitPreservesLines ==
    SplitReturned =>
        /\ ~threw
        /\ Flatten(lineBatches) = lines
        /\ \A k \in 1..Len(lineBatches) : Len(lineBatches[k]) > 0

\* a split into several groups, one of them holding several lines
C3_Witness ==
    /\ SplitReturned
    /\ Len(lineBatches) >= 2
    /\ \E k \in 1..Len(lineBatches) : Len(lineBatches[k]) >= 2

\* number of lines in the groups before group k
RECURSIVE LinesInGroupsBefore(_, _)
LinesInGroupsBefore(groups, k) ==
    IF k <= 1 THEN 0 ELSE LinesInGroupsBefore(groups, k - 1) + Len(groups[k - 1])

\* the token cost, terminator included, of the input line at position p
CostOfLine(p) == lineTokens[((p - 1) % Len(lineTokens)) + 1]

\* the cost of the n input lines from position from on
RECURSIVE SumOfCosts(_, _)
SumOfCosts(from, n) ==
    IF n = 0 THEN 0 ELSE SumOfCosts(from, n - 1) + CostOfLine(from + n - 1)

\* the cost of the lines of group k
GroupCost(k) ==
    SumOfCosts(LinesInGroupsBefore(lineBatches, k) + 1, Len(lineBatches[k]))

\* the cost of the first line of group k
FirstLineCost(k) == CostOfLine(LinesInGroupsBefore(lineBatches, k) + 1)

\* C23: for a positive maxTokens the groups are the input lines in order,
\* and every group costs at most maxTokens unless it is a single line that
\* costs more on its own; a line that costs more than maxTokens is alone
\* in its group; and a group that is within the budget is followed by a
\* line that fits the budget only when that line would have pushed the
\* group's cost above maxTokens.
C23_BatchesWithinBudget ==
    SplitReturned =>
        /\ Flatten(lineBatches) = lines
        /\ \A k \in 1..Len(lineBatches) :
              \/ GroupCost(k) <= maxTokensPerBatch
              \/ Len(lineBatches[k]) = 1
        /\ \A k \in 1..Len(lineBatches) :
              \A j \in 1..Len(lineBatches[k]) :
                  CostOfLine(LinesInGroupsBefore(lineBatches, k) + j) > maxTokensPerBatch
                      => Len(lineBatches[k]) = 1
        /\ \A k \in 1..(Len(lineBatches) - 1) :
              (/\ GroupCost(k) <= maxTokensPerBatch
               /\ FirstLineCost(k + 1) <= maxTokensPerBatch) =>
                  GroupCost(k) + FirstLineCost(k + 1) > maxTokensPerBatch

\* two lines that fill the budget exactly, then a line that exceeds it on
\* its own: a group of two and a group of one
C23_Witness ==
    /\ SplitReturned
    /\ Len(lineBatches) = 2
    /\ Len(lineBatches[1]) = 2
    /\ GroupCost(1) = maxTokensPerBatch
    /\ Len(lineBatches[2]) = 1
    /\ GroupCost(2) > maxTokensPerBatch

\* C21: a call of splitByTokenLimit with maxTokens <= 0 fails, whatever the
\* line array is, the empty one included.
C21_NonPositiveBudgetFails ==
    (pc = "returned" /\ maxTokensPerBatch <= 0) => threw

(***************************************************************************)
(* Claims about the line formatter (checked under SpecFormat)              *)
(***************************************************************************)
\* C28: the line number extracted from the line that formatCodeLine
\* produces for line number n is n, whatever the number of digits of n.
C28_ExtractInvertsFormat ==
    (pc = "returned" /\ extracted # Undefined) => extracted = JNumber(lineNumber)

(***************************************************************************)
(* Claims about createBatches (checked under SpecBatch)                    *)
(***************************************************************************)
\* number of lines in the batches before batch k
RECURSIVE LinesBefore(_, _)
LinesBefore(bs, k) == IF k <= 1 THEN 0
                      ELSE LinesBefore(bs, k - 1) + bs[k - 1].lineCount

BatchesReturned == /\ pc = "returned"
                   /\ totalLines >= 1
                   /\ maxTokensPerBatch > 0

\* C4 (as claimed): for lines numbered 1..N and a positive budget, every
\* batch's startLine and endLine are the line numbers of its first and last
\* lines, the first batch starts at 1, the last ends at N, and each batch
\* starts right after the previous one ends.
C4_RangesPartitionFile ==
    BatchesReturned =>
        /\ ~threw
        /\ Len(batches) >= 1
        /\ \A k \in 1..Len(batches) :
              /\ batches[k].startLine = LinesBefore(batches, k) + 1
              /\ batches[k].endLine = LinesBefore(batches, k) + batches[k].lineCount
              /\ batches[k].startLine <= batches[k].endLine
        /\ batches[1].startLine = 1
        /\ batches[Len(batches)].endLine = totalLines
        /\ \A k \in 2..Len(batches) : batches[k].startLine = batches[k - 1].endLine + 1

(***************************************************************************)
(* Claims about mergeDetectionResults (checked under SpecMerge)            *)
(***************************************************************************)
MergeReturned == pc = "returned" /\ mergedResult # Undefined

\* two or more results whose regions are, in total, two overlapping regions
TwoOverlappingRegions ==
    /\ MergeReturned
    /\ Len(results) >= 2
    /\ Len(AllRegions(results)) = 2
    /\ Overlaps(AllRegions(results)[1], AllRegions(results)[2])

\* the region of higher confidence among the two, when they differ
HigherOfTwo(a, b) ==
    IF confidenceOrder[a.confidence] > confidenceOrder[b.confidence] THEN a ELSE b

\* every region given to the merge has start <= end
InputRegionsWellFormed ==
    \A k \in 1..Len(AllRegions(results)) :
        AllRegions(results)[k].start <= AllRegions(results)[k].end

\* C2 (as claimed): merging two overlapping regions (each with start <= end)
\* keeps exactly one: the one of higher confidence, and on equal confidence
\* the one that comes earlier in combined input order.
C2_TieKeepsEarlierInput ==
    (TwoOverlappingRegions /\ InputRegionsWellFormed) =>
        LET a == AllRegions(results)[1]
            b == AllRegions(results)[2]
        IN /\ Len(mergedResult.regions) = 1
           /\ a.confidence # b.confidence => mergedResult.regions[1] = HigherOfTwo(a, b)
           /\ a.confidence = b.confidence => mergedResult.regions[1] = a

\* C2 (amended): merging two overlapping regions keeps exactly one: the one
\* of higher confidence, and on equal confidence the one with the smaller
\* start line, or the earlier one in combined input order when the start
\* lines are equal too.
C2_TieKeepsSmallerStart ==
    TwoOverlappingRegions =>
        LET a == AllRegions(results)[1]
            b == AllRegions(results)[2]
        IN /\ Len(mergedResult.regions) = 1
           /\ a.confidence # b.confidence => mergedResult.regions[1] = HigherOfTwo(a, b)
           /\ a.confidence = b.confidence =>
                 mergedResult.regions[1] = IF b.start < a.start THEN b ELSE a

\* a tie of confidence between regions of two results in which the later
\* region starts first and is the one kept
C2_Witness ==
    /\ TwoOverlappingRegions
    /\ InputRegionsWellFormed
    /\ Len(results[1].regions) = 1
    /\ AllRegions(results)[1].confidence = AllRegions(results)[2].confidence
    /\ AllRegions(results)[2].start < AllRegions(results)[1].start
    /\ mergedResult.regions = <<AllRegions(results)[2]>>

IsSortedByStart(regions) ==
    \A i \in 2..Len(regions) : regions[i].start >= regions[i - 1].start

\* C10 (as claimed): for every non-empty list of results, the merged regions
\* are sorted ascending by start.
C10_MergedRegionsSorted ==
    (MergeReturned /\ Len(results) >= 1) => IsSortedByStart(mergedResult.regions)

\* no two of the regions given to the merge, within or across results,
\* have overlapping line ranges
RangesOverlap(a, b) == a.start <= b.end /\ b.start <= a.end

NoInputOverlap ==
    LET given == AllRegions(results)
    IN \A a, b \in 1..Len(given) : a # b => ~RangesOverlap(given[a], given[b])

\* the regions of a list, as a set
RegionSet(regions) == {regions[k] : k \in 1..Len(regions)}

\* C11: when no two input regions overlap, the merged regions are exactly
\* the input regions: as many as were given, and every one of them present.
C11_DisjointRegionsPreserved ==
    (MergeReturned /\ NoInputOverlap) =>
        /\ Len(mergedResult.regions) = Len(AllRegions(results))
        /\ RegionSet(AllRegions(results)) \subseteq RegionSet(mergedResult.regions)

\* two results, one region each, on consecutive lines: both are returned
C11_Witness ==
    /\ MergeReturned
    /\ NoInputOverlap
    /\ Len(results) = 2
    /\ Len(results[1].regions) = 1
    /\ Len(results[2].regions) = 1
    /\ results[1].regions[1].end + 1 = results[2].regions[1].start
    /\ Len(mergedResult.regions) = 2

\* C12: the regions returned for a single result are that result's regions
\* sorted by start and deduplicated by the rule of the multi-input case, so
\* no two of them overlap.
C12_SingleInputDeduplicated ==
    (MergeReturned /\ Len(results) = 1) =>
        /\ mergedResult.regions = Deduplicate(SortByStart(results[1].regions))
        /\ \A a, b \in 1..Len(mergedResult.regions) :
              a # b => ~RangesOverlap(mergedResult.regions[a], mergedResult.regions[b])

Rank(confidence) ==
    CASE confidence = "ultra_high" -> 4
      [] confidence = "high" -> 3
      [] confidence = "medium" -> 2
      [] confidence = "low" -> 1

\* two or more results with at least one region, every region with
\* start <= end, and every two regions overlapping
AllInputsOverlap ==
    LET given == AllRegions(results)
    IN /\ MergeReturned
       /\ Len(results) >= 2
       /\ Len(given) >= 1
       /\ InputRegionsWellFormed
       /\ \A a, b \in 1..Len(given) : RangesOverlap(given[a], given[b])

\* C25: when the regions of two or more results all overlap one another,
\* the merge returns exactly one region, and its confidence is the highest
\* confidence among the regions given.
C25_AllOverlappingMergeToOne ==
    AllInputsOverlap =>
        LET given == AllRegions(results)
        IN /\ Len(mergedResult.regions) = 1
           /\ \A k \in 1..Len(given) :
                 Rank(mergedResult.regions[1].confidence) >= Rank(given[k].confidence)
           /\ \E k \in 1..Len(given) :
                 mergedResult.regions[1].confidence = given[k].confidence

\* three regions of three different confidences over two results, the one
\* of highest confidence starting last: it is the one returned
C25_Witness ==
    /\ AllInputsOverlap
    /\ Len(AllRegions(results)) = 3
    /\ Len(results[1].regions) >= 1
    /\ Len(results[2].regions) >= 1
    /\ AllRegions(results)[1].confidence = "ultra_high"
    /\ AllRegions(results)[1].start = 2
    /\ AllRegions(results)[2].confidence = "low"
    /\ AllRegions(results)[2].start = 1
    /\ AllRegions(results)[3].confidence = "high"
    /\ AllRegions(results)[3].start = 1
    /\ mergedResult.regions = <<AllRegions(results)[1]>>

\* two results with one region each, both with start <= end
OneRegionEach ==
    /\ MergeReturned
    /\ Len(results) = 2
    /\ Len(results[1].regions) = 1
    /\ Len(results[2].regions) = 1
    /\ InputRegionsWellFormed

\* the first region ends on the line on which the second starts
Touching(first, second) == first.end = second.start

\* the second region starts on the line after the one on which the first ends
Adjacent(first, second) == second.start = first.end + 1

\* C26: of two regions of different results, two that share a boundary
\* line merge to one region, and two on consecutive lines are both
\* returned.
C26_OverlapInclusive ==
    OneRegionEach =>
        LET a == results[1].regions[1]
            b == results[2].regions[1]
        IN /\ (Touching(a, b) \/ Touching(b, a)) => Len(mergedResult.regions) = 1
           /\ (Adjacent(a, b) \/ Adjacent(b, a)) =>
                 /\ Len(mergedResult.regions) = 2
                 /\ RegionSet(mergedResult.regions) = {a, b}

\* lines 1-2 in the first result and the single line 2 in the second: one
\* region is returned
C26_Witness ==
    /\ OneRegionEach
    /\ results[1].regions[1].start = 1
    /\ results[1].regions[1].end = 2
    /\ results[2].regions[1].start = 2
    /\ results[2].regions[1].end = 2
    /\ Len(mergedResult.regions) = 1

\* C29: for two or more results whose regions all have start <= end, no
\* two of the regions returned overlap, and every region returned is one of
\* the regions given, with every field as given.
C29_OutputDisjointFromInput ==
    (MergeReturned /\ Len(results) >= 2 /\ InputRegionsWellFormed) =>
        /\ \A a, b \in 1..Len(mergedResult.regions) :
              a # b => ~RangesOverlap(mergedResult.regions[a], mergedResult.regions[b])
        /\ RegionSet(mergedResult.regions) \subseteq RegionSet(AllRegions(results))

\* three regions over two results: two on line 1, of which the second has
\* the higher confidence and replaces the first, and one on line 2
C29_Witness ==
    /\ MergeReturned
    /\ Len(results) = 2
    /\ InputRegionsWellFormed
    /\ Len(AllRegions(results)) = 3
    /\ Len(results[2].regions) >= 1
    /\ RangesOverlap(AllRegions(results)[1], AllRegions(results)[2])
    /\ Rank(AllRegions(results)[2].confidence) > Rank(AllRegions(results)[1].confidence)
    /\ ~RangesOverlap(AllRegions(results)[2], AllRegions(results)[3])
    /\ mergedResult.regions = <<AllRegions(results)[2], AllRegions(results)[3]>>

\* the description of a summary of either form
DescriptionOf(summary) ==
    IF summary.type = "string" THEN summary.value ELSE summary.overall_description

\* "[Batch 1] d1\n[Batch 2] d2\n ... [Batch n] dn" for the first n results
RECURSIVE TaggedDescriptions(_)
TaggedDescriptions(n) ==
    IF n = 0 THEN <<>>
    ELSE (IF n = 1 THEN <<>> ELSE TaggedDescriptions(n - 1) \o <<"\n">>)
            \o <<"[Batch ">> \o String(n) \o <<"] ">> \o DescriptionOf(results[n].summary)

\* C13: for two or more inputs the merged summary is structured, its
\* overall_description being the tagged descriptions of all inputs in input
\* order joined by newlines and its debugging_recommendation that of the
\* last input when its summary is structured, the fixed fallback otherwise;
\* for zero inputs the summary is the empty string and regions is empty.
C13_MergedSummary ==
    MergeReturned =>
        /\ Len(results) >= 2 =>
              /\ mergedResult.summary.type = "object"
              /\ mergedResult.summary.overall_description = TaggedDescriptions(Len(results))
              /\ mergedResult.summary.debugging_recommendation =
                    IF results[Len(results)].summary.type = "object"
                    THEN results[Len(results)].summary.debugging_recommendation
                    ELSE FallbackRecommendation
        /\ Len(results) = 0 =>
              /\ mergedResult.summary = StringSummary(<<>>)
              /\ mergedResult.regions = <<>>

\* three results: a string summary, a structured one, a string one last
C13_Witness ==
    /\ MergeReturned
    /\ Len(results) = 3
    /\ results[1].summary.type = "string"
    /\ results[2].summary.type = "object"
    /\ results[3].summary.type = "string"
    /\ mergedResult.summary.debugging_recommendation = FallbackRecommendation

\* result k carries a descriptor with a non-null, non-empty variable_name
HasNamedBytecode(k) ==
    /\ results[k].global_bytecode # Undefined
    /\ results[k].global_bytecode.variable_name # JNull
    /\ results[k].global_bytecode.variable_name # JString(<<>>)

\* C14: for two or more inputs the merged global_bytecode is the descriptor
\* of the first input that has a named one; without such an input the
\* merged result has no global_bytecode.
C14_FirstNamedBytecode ==
    (MergeReturned /\ Len(results) >= 2) =>
        /\ \A k \in 1..Len(results) :
              (HasNamedBytecode(k) /\ \A j \in 1..(k - 1) : ~HasNamedBytecode(j)) =>
                  mergedResult.global_bytecode = results[k].global_bytecode
        /\ (\A k \in 1..Len(results) : ~HasNamedBytecode(k)) =>
              mergedResult.global_bytecode = Undefined

\* the first result has a descriptor without a name, the second a named one
C14_Witness ==
    /\ MergeReturned
    /\ Len(results) >= 2
    /\ results[1].global_bytecode # Undefined
    /\ ~HasNamedBytecode(1)
    /\ HasNamedBytecode(2)
    /\ mergedResult.global_bytecode = results[2].global_bytecode

(***************************************************************************)
(* Claims about parseDetectionResult (checked under SpecParse)             *)
(***************************************************************************)
ParseReturned == pc = "returned" /\ parseResult # Undefined

\* the value of a field of a JSON object, Undefined when there is none
Field(v, name) ==
    IF v.type = "object" /\ name \in DOMAIN v.fields THEN v.fields[name] ELSE Undefined

IsNumber(v) == v.type = "number"

IsString(v) == v.type = "string"

\* the response is a JSON object
IsObjectResponse == jsonString # NotJson /\ jsonString.type = "object"

\* the summary is a string, or an object with both strings
SummaryAccepted ==
    LET summary == Field(jsonString, "summary")
    IN \/ IsString(summary)
       \/ /\ summary.type = "object"
          /\ IsString(Field(summary, "overall_description"))
          /\ IsString(Field(summary, "debugging_recommendation"))

HasRegionArray == IsObjectResponse /\ Field(jsonString, "regions").type = "array"

\* the items of regions
Items == Field(jsonString, "regions").items

\* a line number is given under its current name, or, that name being
\* absent or null, under its legacy name
LineGiven(item, current, legacy) ==
    \/ IsNumber(Field(item, current))
    \/ /\ Field(item, current) \in {Undefined, JNull}
       /\ IsNumber(Field(item, legacy))

\* the names of the required fields of a region item that are missing or
\* of a wrong type, as the messages spell them
MistypedFields(item) ==
    {name \in {"start_line", "end_line", "type", "confidence", "description"} :
        CASE name = "start_line" -> ~LineGiven(item, "start_line", "start")
          [] name = "end_line" -> ~LineGiven(item, "end_line", "end")
          [] OTHER -> ~IsString(Field(item, name))}

\* the enumerations of the specification
SpecifiedTypes ==
    {"If-Else Dispatcher", "Switch Dispatcher", "Instruction Array", "Stack Operation"}

SpecifiedConfidences == {"ultra_high", "high", "medium", "low"}

TypeOutside(item) ==
    IsString(Field(item, "type")) /\ Field(item, "type").value \notin SpecifiedTypes

ConfidenceOutside(item) ==
    IsString(Field(item, "confidence"))
        /\ Field(item, "confidence").value \notin SpecifiedConfidences

\* the parse failed with a message that is not empty
Failed == ~parseResult.ok /\ Len(parseResult.message) > 0

\* the failure message has the fragment word
Names(word) == \E k \in 1..Len(parseResult.message) : parseResult.message[k] = word

\* C15: the parse fails with a non-empty message when the response is not
\* JSON, has no acceptable summary (the message names summary), has no array
\* regions (the message names regions), or has a region item that is not an
\* object or lacks a well-typed start/end, type, confidence or description
\* (the message names such a field of such a region); when the only defect
\* of the response is one type, respectively confidence, outside the
\* enumeration, the message names the field and lists the accepted values.
\* One such region among valid ones fails the whole parse.
C15_InvalidResponseFails ==
    ParseReturned =>
        /\ jsonString = NotJson => Failed
        /\ (IsObjectResponse /\ ~SummaryAccepted) => Failed /\ Names("summary")
        /\ (IsObjectResponse /\ SummaryAccepted /\ ~HasRegionArray) =>
              Failed /\ Names("regions")
        /\ (HasRegionArray /\ SummaryAccepted) =>
              /\ (\E k \in 1..Len(Items) :
                     \/ Items[k].type \notin {"object", "array"}
                     \/ MistypedFields(Items[k]) # {}
                     \/ TypeOutside(Items[k])
                     \/ ConfidenceOutside(Items[k])) => Failed
              /\ \A k \in 1..Len(Items) :
                    /\ (\A j \in 1..Len(Items) :
                           j # k => Items[j] = ValidRegionObject(j)) =>
                          /\ Items[k].type \notin {"object", "array"} =>
                                Failed /\ Names("regions[")
                          /\ (Items[k].type = "object" /\ MistypedFields(Items[k]) # {}) =>
                                /\ Failed
                                /\ \E name \in MistypedFields(Items[k]) : Names(name)
                          /\ (MistypedFields(Items[k]) = {} /\ TypeOutside(Items[k])) =>
                                /\ Failed
                                /\ Names(".type")
                                /\ \A v \in 1..Len(VALID_DETECTION_TYPES) :
                                      Names(VALID_DETECTION_TYPES[v])
                          /\ (/\ MistypedFields(Items[k]) = {}
                              /\ ~TypeOutside(Items[k])
                              /\ Field(Items[k], "type").value \in
                                    {VALID_DETECTION_TYPES[v] :
                                        v \in 1..Len(VALID_DETECTION_TYPES)}
                              /\ ConfidenceOutside(Items[k])) =>
                                /\ Failed
                                /\ Names(".confidence")
                                /\ \A v \in SpecifiedConfidences : Names(v)

\* two regions, the first valid, the second with a type outside the
\* enumeration: the parse failed
C15_Witness ==
    /\ ParseReturned
    /\ HasRegionArray
    /\ Len(Items) = 2
    /\ Items[1] = ValidRegionObject(1)
    /\ MistypedFields(Items[2]) = {}
    /\ TypeOutside(Items[2])
    /\ Failed

\* the region item uses only the legacy names for its line numbers
LegacyOnly(item) ==
    /\ item.type = "object"
    /\ Field(item, "start_line") = Undefined
    /\ Field(item, "end_line") = Undefined
    /\ IsNumber(Field(item, "start"))
    /\ IsNumber(Field(item, "end"))

\* the same region item with the current names in place of the legacy ones
AsCurrent(item) ==
    IF ~LegacyOnly(item) THEN item
    ELSE JObject([name \in (DOMAIN item.fields \ {"start", "end"})
                              \cup {"start_line", "end_line"} |->
                     IF name = "start_line" THEN item.fields["start"]
                     ELSE IF name = "end_line" THEN item.fields["end"]
                     ELSE item.fields[name]])

\* the response with every legacy-only region item rewritten
ResponseAsCurrent ==
    JObject([jsonString.fields EXCEPT
                !["regions"] = JArray([k \in 1..Len(Items) |-> AsCurrent(Items[k])])])

\* C16: in a successful parse every region's start and end are the numbers
\* given as start_line and end_line when those are given, and the numbers
\* given as start and end otherwise; a response whose regions use the
\* legacy names parses to the same result as the response with the current
\* names in their place.
C16_CurrentNamesPreferred ==
    (ParseReturned /\ parseResult.ok) =>
        /\ \A k \in 1..Len(Items) :
              /\ parseResult.value.regions[k].start =
                    IF IsNumber(Field(Items[k], "start_line"))
                    THEN Field(Items[k], "start_line").value
                    ELSE Field(Items[k], "start").value
              /\ parseResult.value.regions[k].end =
                    IF IsNumber(Field(Items[k], "end_line"))
                    THEN Field(Items[k], "end_line").value
                    ELSE Field(Items[k], "end").value
        /\ (\E k \in 1..Len(Items) : LegacyOnly(Items[k])) =>
              parseResult = parseDetectionResult(ResponseAsCurrent)

\* a region that gives start_line = 2 and start = 1 was parsed, with start 2
C16_Witness ==
    /\ ParseReturned
    /\ parseResult.ok
    /\ Len(Items) >= 1
    /\ Field(Items[1], "start_line") = JNumber(2)
    /\ Field(Items[1], "start") = JNumber(1)
    /\ parseResult.value.regions[1].start = 2

\* the line number a region item gives under either name
LineValue(item, current, legacy) ==
    IF IsNumber(Field(item, current)) THEN Field(item, current).value
    ELSE Field(item, legacy).value

\* every region item of the response is an object whose required fields
\* other than type are given and well typed, with start <= end and a
\* confidence of the enumeration, and whose type is a string
ValidButForType ==
    /\ HasRegionArray
    /\ SummaryAccepted
    /\ \A k \in 1..Len(Items) :
          /\ Items[k].type = "object"
          /\ MistypedFields(Items[k]) = {}
          /\ ~ConfidenceOutside(Items[k])
          /\ LineValue(Items[k], "start_line", "start")
                <= LineValue(Items[k], "end_line", "end")

\* C17: a response whose regions are valid but for their types is parsed
\* exactly when every type is one of If-Else Dispatcher, Switch Dispatcher,
\* Instruction Array and Stack Operation.
C17_StackOperationAccepted ==
    (ParseReturned /\ ValidButForType) =>
        (parseResult.ok <=>
            \A k \in 1..Len(Items) : Field(Items[k], "type").value \in SpecifiedTypes)

\* C18: a response with valid regions is parsed exactly when its summary
\* is a string or an object whose overall_description and
\* debugging_recommendation are strings; a string summary is returned as
\* that string, an object summary as an object of exactly those two fields;
\* with any other summary the parse fails.
C18_SummaryForms ==
    (ParseReturned /\ IsObjectResponse) =>
        LET summary == Field(jsonString, "summary")
        IN /\ ~SummaryAccepted => ~parseResult.ok
           /\ (/\ SummaryAccepted
               /\ Field(jsonString, "regions") \in
                     {JArray(<<>>), JArray(<<ValidRegionObject(1)>>)}) =>
                 /\ parseResult.ok
                 /\ IsString(summary) =>
                       parseResult.value.summary = [type |-> "string", value |-> summary.value]
                 /\ ~IsString(summary) =>
                       parseResult.value.summary =
                           [type |-> "object",
                            overall_description |->
                                Field(summary, "overall_description").value,
                            debugging_recommendation |->
                                Field(summary, "debugging_recommendation").value]

\* a summary object with a third field was parsed
C18_Witness ==
    /\ ParseReturned
    /\ IsObjectResponse
    /\ Field(jsonString, "summary").type = "object"
    /\ Field(Field(jsonString, "summary"), "notes") # Undefined
    /\ parseResult.ok
    /\ parseResult.value.summary.type = "object"

\* every required field of the response passes the parser's checks
RequiredFieldsValid ==
    /\ HasRegionArray
    /\ SummaryAccepted
    /\ \A k \in 1..Len(Items) :
          /\ Items[k].type = "object"
          /\ MistypedFields(Items[k]) = {}
          /\ isValidDetectionType(Field(Items[k], "type").value)
          /\ Field(Items[k], "confidence").value \in SpecifiedConfidences

VmRoles == {"instruction_pointer", "stack_pointer", "virtual_stack", "bytecode_array"}

\* the role is an object carrying a confidence of the enumeration
RoleIdentified(vm, role) ==
    /\ Field(vm, role).type = "object"
    /\ IsString(Field(Field(vm, role), "confidence"))
    /\ Field(Field(vm, role), "confidence").value \in SpecifiedConfidences

\* what is given for an optional part is an object with a numeric line_number
HasLineNumber(v) == v.type = "object" /\ IsNumber(Field(v, "line_number"))

\* C19: a response whose required fields are valid is parsed whatever its
\* vm_components, debugging_entry_point and global_bytecode are.  A region
\* has vm_components exactly when one of the four roles given is an object
\* with a confidence of the enumeration; then every role is present, an
\* identified one with its confidence and with null for a name or line
\* number of a wrong type, any other with a null name, and loop_entry and
\* breakpoint are present exactly when given with a line number; otherwise
\* nothing of vm_components is kept.  debugging_entry_point is kept exactly
\* when given with a line number, global_bytecode exactly when given as an
\* object, with null for a name of a wrong type.
C19_OptionalFieldsLenient ==
    (ParseReturned /\ RequiredFieldsValid) =>
        /\ parseResult.ok
        /\ \A k \in 1..Len(Items) :
              LET vm == Field(Items[k], "vm_components")
                  region == parseResult.value.regions[k]
              IN /\ "vm_components" \in DOMAIN region
                        <=> \E role \in VmRoles : RoleIdentified(vm, role)
                 /\ "vm_components" \in DOMAIN region =>
                       /\ \A role \in VmRoles :
                             LET given == Field(vm, role)
                                 kept == region.vm_components[role]
                             IN IF RoleIdentified(vm, role)
                                THEN /\ kept.confidence = Field(given, "confidence").value
                                     /\ kept.variable_name =
                                           IF IsString(Field(given, "variable_name"))
                                           THEN Field(given, "variable_name") ELSE JNull
                                     /\ kept.line_number =
                                           IF IsNumber(Field(given, "line_number"))
                                           THEN Field(given, "line_number") ELSE JNull
                                ELSE kept.variable_name = JNull
                       /\ "loop_entry" \in DOMAIN region.vm_components
                             <=> HasLineNumber(Field(vm, "loop_entry"))
                       /\ "breakpoint" \in DOMAIN region.vm_components
                             <=> HasLineNumber(Field(vm, "breakpoint"))
                 /\ "debugging_entry_point" \in DOMAIN region
                        <=> HasLineNumber(Field(Items[k], "debugging_entry_point"))
        /\ LET given == Field(jsonString, "global_bytecode")
               kept == parseResult.value.global_bytecode
           IN /\ kept # Undefined <=> given.type \in {"object", "array"}
              /\ kept # Undefined =>
                    kept.variable_name = IF IsString(Field(given, "variable_name"))
                                         THEN Field(given, "variable_name") ELSE JNull

\* a region given vm_components with a loop_entry but no identified role
\* was parsed, and has no vm_components
C19_Witness ==
    /\ ParseReturned
    /\ RequiredFieldsValid
    /\ Len(Items) = 1
    /\ HasLineNumber(Field(Field(Items[1], "vm_components"), "loop_entry"))
    /\ Field(Field(Items[1], "vm_components"), "stack_pointer").type = "object"
    /\ \A role \in VmRoles : ~RoleIdentified(Field(Items[1], "vm_components"), role)
    /\ parseResult.ok
    /\ "vm_components" \notin DOMAIN parseResult.value.regions[1]

\* C20: every region of a result returned by the parser has start <= end
\* (the line numbers of the responses considered are all integers).
C20_RegionsWellFormed ==
    (ParseReturned /\ parseResult.ok) =>
        \A k \in 1..Len(parseResult.value.regions) :
            parseResult.value.regions[k].start <= parseResult.value.regions[k].end

(***************************************************************************)
(* Claims about getLLMConfig (checked under SpecConfig)                    *)
(***************************************************************************)
ConfigReturned == pc = "returned" /\ llmConfig # Undefined

Providers == {OpenAI, Anthropic, Google}

\* the provider that LLM_PROVIDER selects, its case ignored: openai when
\* the variable is unset; none (the empty set) when it names no provider
SelectedProviders ==
    IF env.LLM_PROVIDER = Undefined THEN {OpenAI}
    ELSE {p \in Providers :
             /\ Len(env.LLM_PROVIDER.value) = Len(p)
             /\ \A k \in 1..Len(p) :
                   \/ env.LLM_PROVIDER.value[k] = p[k]
                   \/ \E j \in 1..26 : /\ LowerCaseLetters[j] = p[k]
                                       /\ UpperCaseLetters[j] = env.LLM_PROVIDER.value[k]}

\* the name of the API-key variable of a provider
ApiKeyVariable(p) ==
    CASE p = OpenAI -> "OPENAI_API_KEY"
      [] p = Anthropic -> "ANTHROPIC_API_KEY"
      [] p = Google -> "GOOGLE_API_KEY"

\* C22 (as claimed): getLLMConfig returns null when LLM_PROVIDER names no
\* provider, and when the API-key variable of the selected provider is
\* unset; in every other case it returns a configuration with the selected
\* provider and the value of that provider's API-key variable as apiKey.
C22_NullOnlyWhenKeyUnset ==
    ConfigReturned =>
        /\ SelectedProviders = {} => llmConfig = JNull
        /\ \A p \in SelectedProviders :
              IF env[ApiKeyVariable(p)] = Undefined
              THEN llmConfig = JNull
              ELSE /\ llmConfig # JNull
                   /\ llmConfig.provider = p
                   /\ llmConfig.apiKey = env[ApiKeyVariable(p)].value

\* C22 (amended): getLLMConfig returns null when LLM_PROVIDER names no
\* provider, and when the API-key variable of the selected provider is
\* unset or empty; in every other case it returns a configuration with the
\* selected provider and the value of that provider's API-key variable as
\* apiKey.
C22_NullWhenKeyUnsetOrEmpty ==
    ConfigReturned =>
        /\ SelectedProviders = {} => llmConfig = JNull
        /\ \A p \in SelectedProviders :
              IF env[ApiKeyVariable(p)] \in {Undefined, JString(<<>>)}
              THEN llmConfig = JNull
              ELSE /\ llmConfig # JNull
                   /\ llmConfig.provider = p
                   /\ llmConfig.apiKey = env[ApiKeyVariable(p)].value

\* LLM_PROVIDER is ANTHROPIC in upper case, the keys of openai and
\* anthropic are both set: the configuration is that of anthropic
C22_Witness ==
    /\ ConfigReturned
    /\ env.LLM_PROVIDER = JString(<<"A", "N", "T", "H", "R", "O", "P", "I", "C">>)
    /\ env.OPENAI_API_KEY # Undefined
    /\ env.OPENAI_API_KEY # JString(<<>>)
    /\ llmConfig # JNull
    /\ llmConfig.provider = Anthropic
    /\ llmConfig.apiKey = env.ANTHROPIC_API_KEY.value

(***************************************************************************)
(* Claims about the batch processor and findJsvmpDispatcher (checked       *)
(* under Spec)                                                             *)
(***************************************************************************)
\* the batch processor has run and returned
ProcessorReturned ==
    /\ pc = "returned"
    /\ \/ caller = "processBatchesWithErrorHandling"
       \/ caller = "findJsvmpDispatcher" /\ tokenizerCalls > 0 /\ ~threw

\* whether the k-th settled call led to a parsed result
Succeeded(k) == processBatch(settled[k].outcome).ok

\* the parsed results of the succeeded calls among the first n settled
RECURSIVE ParsedResults(_)
ParsedResults(n) ==
    IF n = 0 THEN <<>>
    ELSE IF Succeeded(n)
    THEN Append(ParsedResults(n - 1), processBatch(settled[n].outcome).value)
    ELSE ParsedResults(n - 1)

\* the batch indices of the failed calls among the first n settled
RECURSIVE FailedBatches(_)
FailedBatches(n) ==
    IF n = 0 THEN <<>>
    ELSE IF Succeeded(n) THEN FailedBatches(n - 1)
    ELSE Append(FailedBatches(n - 1), settled[n].batch)

\* C1: when processBatchesWithErrorHandling returns for a list of N batches,
\* every batch has been attempted once, in order, whatever the outcomes;
\* results holds the parsed results of exactly the succeeded batches in batch
\* order, errors holds one entry per failed batch, and the two lengths add up
\* to N.
C1_AllBatchesAttempted ==
    ProcessorReturned =>
        /\ Len(settled) = Len(batches)
        /\ \A k \in 1..Len(settled) : settled[k].batch = k - 1
        /\ calls = [k \in 1..Len(batches) |-> k - 1]
        /\ results = ParsedResults(Len(settled))
        /\ Len(errors) = Len(FailedBatches(Len(settled)))
        /\ Len(results) + Len(errors) = Len(batches)

\* a returned run of three batches: the first call rejected, the second
\* response failed to parse, the third succeeded
C1_Witness ==
    /\ ProcessorReturned
    /\ Len(batches) = 3
    /\ Len(settled) = 3
    /\ settled[1].outcome.settled = "rejected"
    /\ settled[2].outcome.settled = "resolved" /\ ~Succeeded(2)
    /\ Succeeded(3)
    /\ Len(results) = 1
    /\ Len(errors) = 2

\* C5: at every moment at most one model call is outstanding; calls are
\* started in increasing batch index, and the call for a batch is started
\* only when every earlier call has settled and its outcome is in results or
\* errors.
C5_OneOutstandingCall ==
    /\ Cardinality(inFlight) <= 1
    /\ \A k \in 1..Len(calls) : calls[k] = k - 1
    /\ Len(calls) <= Len(settled) + 1
    /\ \A k \in 1..Len(settled) : settled[k].batch = k - 1
    /\ Len(results) + Len(errors) = Len(settled)
    /\ inFlight = {calls[k] : k \in (Len(settled) + 1)..Len(calls)}

\* the third call is outstanding, the first two have settled
C5_Witness ==
    /\ pc = "analyzeJSVMP"
    /\ calls = <<0, 1, 2>>
    /\ Len(settled) = 2
    /\ inFlight = {2}

\* sub occurs in text as a run of consecutive fragments
Contains(text, sub) ==
    \E k \in 0..(Len(text) - Len(sub)) : SubSeq(text, k + 1, k + Len(sub)) = sub

\* C6: the j-th error string belongs to the j-th failed batch; it contains
\* "Batch " followed by the batch's 1-based position in the batch list, the
\* batch's startLine and endLine, and the message of the rejected call or of
\* the parser; the ordinals of the errors increase.
C6_ErrorNamesOriginalBatch ==
    LET failed == FailedBatches(Len(settled))
    IN /\ Len(errors) = Len(failed)
       /\ \A j \in 1..Len(failed) :
            LET batch == batches[failed[j] + 1]
            IN /\ Contains(errors[j], <<"Batch ">> \o String(failed[j] + 1) \o <<" (lines ">>)
               /\ Contains(errors[j], <<" (lines ">> \o String(batch.startLine) \o <<"-">>
                                          \o String(batch.endLine))
               /\ Contains(errors[j],
                           processBatch(settled[failed[j] + 1].outcome).message)
       /\ \A j \in 1..(Len(failed) - 1) : failed[j] < failed[j + 1]

\* the first batch succeeded, the second call was rejected and the third
\* response failed to parse: the errors are those of batches 2 and 3
C6_Witness ==
    /\ ProcessorReturned
    /\ Len(settled) = 3
    /\ Succeeded(1)
    /\ settled[2].outcome.settled = "rejected"
    /\ settled[3].outcome.settled = "resolved" /\ ~Succeeded(3)
    /\ Len(errors) = 2

\* C27: the model is called once per batch, in batch order, whether the
\* batch succeeds or fails: no batch is called twice, and when the processor
\* returns every batch has been called; every failed batch has its entry in
\* errors; a step never changes an entry that results or errors already
\* holds, and a step that records a failure leaves results as it is.
C27_OneCallPerBatch ==
    /\ [](/\ \A k \in 1..Len(calls) : calls[k] = k - 1
          /\ Len(calls) <= Len(batches)
          /\ ProcessorReturned =>
                /\ Len(calls) = Len(batches)
                /\ Len(settled) = Len(batches)
          /\ Len(errors) = Len(FailedBatches(Len(settled))))
    /\ [][/\ Len(results') >= Len(results)
          /\ SubSeq(results', 1, Len(results)) = results
          /\ Len(errors') >= Len(errors)
          /\ SubSeq(errors', 1, Len(errors)) = errors
          /\ Len(errors') > Len(errors) => results' = results]_vars

\* a direct run over three batches has returned: the first batch succeeded,
\* the second failed, the third succeeded after that failure
C27_Witness ==
    /\ pc = "returned"
    /\ caller = "processBatchesWithErrorHandling"
    /\ Len(batches) = 3
    /\ calls = <<0, 1, 2>>
    /\ Succeeded(1)
    /\ ~Succeeded(2)
    /\ Succeeded(3)
    /\ Len(results) = 2
    /\ Len(errors) = 1

\* findJsvmpDispatcher has returned after the batch processor ran
FindProcessed ==
    /\ caller = "findJsvmpDispatcher"
    /\ ProcessorReturned

SomeSucceeded == \E k \in 1..Len(settled) : Succeeded(k)

SomeFailed == \E k \in 1..Len(settled) : ~Succeeded(k)

\* C7: a run of findJsvmpDispatcher over at least two batches in which some
\* batch succeeds and some batch fails returns success = true with the merge
\* of the parsed results, a formatted report, and partialErrors equal to the
\* error strings of the failed batches; a run in which no batch fails returns
\* no partialErrors.
C7_PartialSuccessIsSuccess ==
    FindProcessed =>
        /\ (Len(batches) >= 2 /\ SomeSucceeded /\ SomeFailed) =>
              /\ ret.success = TRUE
              /\ ret.result = mergeDetectionResults(ParsedResults(Len(settled)))
              /\ ret.formattedOutput.type = "string"
              /\ ret.formattedOutput.value =
                    formatDetectionResultOutput(ret.result, FilePath, totalLines,
                                                Len(batches))
              /\ ret.partialErrors = JArray(errors)
              /\ Len(errors) = Len(FailedBatches(Len(settled)))
        /\ ~SomeFailed => ret.partialErrors = Undefined

\* three batches, the middle one failed, the others succeeded
C7_Witness ==
    /\ FindProcessed
    /\ Len(settled) = 3
    /\ Succeeded(1)
    /\ ~Succeeded(2)
    /\ Succeeded(3)
    /\ ret.success = TRUE
    /\ ret.partialErrors # Undefined

\* the description of the summary parsed from the k-th settled call
ParsedDescription(k) ==
    LET summary == processBatch(settled[k].outcome).value.summary
    IN IF summary.type = "string" THEN summary.value ELSE summary.overall_description

\* the number of succeeded calls among the first n settled
RECURSIVE SucceededAmong(_)
SucceededAmong(n) ==
    IF n = 0 THEN 0 ELSE SucceededAmong(n - 1) + (IF Succeeded(n) THEN 1 ELSE 0)

\* C30: in a run of findJsvmpDispatcher in which at least two batches
\* succeed, the merged summary tags the summary of every succeeded batch
\* with that batch's position in the batch list of the file ("[Batch k] "
\* before the summary of the k-th batch), the numbering of the error
\* strings, whether or not a batch before it failed.
C30_TagsNameOriginalBatch ==
    (FindProcessed /\ SucceededAmong(Len(settled)) >= 2) =>
        /\ ret.success = TRUE
        /\ ret.result.summary.type = "object"
        /\ \A k \in 1..Len(settled) :
              Succeeded(k) =>
                  Contains(ret.result.summary.overall_description,
                           <<"[Batch ">> \o String(k) \o <<"] ">> \o ParsedDescription(k))

\* C8: when every batch of a run of findJsvmpDispatcher fails, the result
\* has success = false, an error that contains every per-batch error string,
\* partialErrors equal to the list of all N per-batch errors, and neither a
\* result nor a formatted report; no result with success = false carries a
\* result or a formatted report.
C8_TotalFailure ==
    /\ (FindProcessed /\ Len(batches) >= 1 /\ ~SomeSucceeded) =>
          /\ ret.success = FALSE
          /\ ret.error.type = "string"
          /\ \A j \in 1..Len(errors) : Contains(ret.error.value, errors[j])
          /\ Len(errors) = Len(batches)
          /\ ret.partialErrors = JArray(errors)
          /\ ret.result = Undefined
          /\ ret.formattedOutput = Undefined
    /\ (ret # Undefined /\ ret.success = FALSE) =>
          /\ ret.result = Undefined
          /\ ret.formattedOutput = Undefined

\* two batches: the first call rejected, the second response not parsable
C8_Witness ==
    /\ FindProcessed
    /\ Len(settled) = 2
    /\ settled[1].outcome.settled = "rejected"
    /\ settled[2].outcome.settled = "resolved" /\ ~Succeeded(2)
    /\ ret.success = FALSE

\* C9: a call of findJsvmpDispatcher without a model configuration, or with
\* one but for a file that does not exist, never calls the beautifier, the
\* tokenizer or the model, and returns success = false with totalLines = 0,
\* batchCount = 0 and the configuration error, respectively the
\* file-not-found error.
C9_EarlyErrors ==
    (caller = "findJsvmpDispatcher" /\ (~config \/ ~fileExists)) =>
        /\ beautifierCalls = 0
        /\ tokenizerCalls = 0
        /\ calls = <<>>
        /\ settled = <<>>
        /\ pc \in {"findJsvmpDispatcher", "returned"}
        /\ pc = "returned" =>
              /\ ret.success = FALSE
              /\ ret.totalLines = 0
              /\ ret.batchCount = 0
              /\ ret.error = JString(IF ~config THEN ConfigError
                                     ELSE FileNotFound(FilePath))

\* the call for a missing file, with a configuration, has returned
C9_Witness ==
    /\ caller = "findJsvmpDispatcher"
    /\ config
    /\ ~fileExists
    /\ pc = "returned"
    /\ ret.success = FALSE

====
